---- MODULE Spec2Model ----
(***************************************************************************)
(* A model of tte (tiny text editor), src/tte.c.                           *)
(*                                                                         *)
(* The editor is one global struct (ec) driven by a single loop:           *)
(*     editorRefreshScreen(); editorProcessKeypress();                     *)
(* Bytes are integers 0..255, a row's chars / render are sequences of      *)
(* bytes, and ec.row is a sequence of row records (index i of the C array  *)
(* is element i + 1 of the sequence).                                      *)
(***************************************************************************)
EXTENDS Integers, Sequences, FiniteSets

(***************************************************************************)
(* Program constants.                                                      *)
(***************************************************************************)
TTE_TAB_STOP == 8
TTE_QUIT_TIMES == 3

NUL == 0
TAB == 9
NEWLINE == 10
CARRIAGE_RETURN == 13
ESC == 27
SPACE == 32
DIGIT_0 == 48
DIGIT_9 == 57
UPPER_A == 65
UPPER_B == 66
UPPER_C == 67
UPPER_D == 68
UPPER_F == 70
UPPER_H == 72
LETTER_O == 79
BRACKET == 91
LETTER_A == 97
TILDE == 126
BACKSPACE == 127
ARROW_LEFT == 1000
ARROW_RIGHT == ARROW_LEFT + 1
ARROW_UP == ARROW_LEFT + 2
ARROW_DOWN == ARROW_LEFT + 3
PAGE_UP == ARROW_LEFT + 4
PAGE_DOWN == ARROW_LEFT + 5
HOME_KEY == ARROW_LEFT + 6
END_KEY == ARROW_LEFT + 7
DEL_KEY == ARROW_LEFT + 8

\* CTRL_KEY(k) is k & 0x1f: the low five bits of k.
CTRL_KEY(k) == k % 32

(***************************************************************************)
(* Bounds of the model.                                                    *)
(***************************************************************************)
\* Most rows a document of the editor loop holds.
MaxRows == 2
\* Most bytes a row of the editor loop holds.
MaxLen == 2
\* Largest value the dirty counter takes before mutating keys are held back.
MaxDirty == 2
\* Smallest and largest terminal height, and largest terminal width, the
\* window-size query reports.
MinWsRow == 2
MaxWsRow == 5
MaxWsCol == 1
\* Most bytes typed into a prompt.
MaxBuf == 1
\* Largest cursor row / column the editor loop is followed to.
MaxCursorY == 2
MaxCursorX == 2
\* Longest file text the editor is started on.
MaxFile == 2
\* Longest row the row operations are applied to on their own.
MaxRowLen == 8

(***************************************************************************)
(* Row operations                                                          *)
(***************************************************************************)

\* The byte the C code reads at row->chars[j] (j counted from 0) when the
\* memory behind the row is mem: the row's bytes, its NUL terminator and
\* whatever lies behind the allocation.
CharAt(mem, j) == mem[j + 1]

RECURSIVE CursorXToRenderXLoop(_, _, _, _)
CursorXToRenderXLoop(mem, j, cursor_x, render_x) ==
    IF j < cursor_x
    THEN LET r == IF CharAt(mem, j) = TAB
                  THEN render_x + (TTE_TAB_STOP - 1) - (render_x % TTE_TAB_STOP)
                  ELSE render_x
         IN CursorXToRenderXLoop(mem, j + 1, cursor_x, r + 1)
    ELSE render_x

\* editorRowCursorXToRenderX with j <= cursor_x for j < cursor_x.
editorRowCursorXToRenderX_OneMore(mem, cursor_x) ==
    CursorXToRenderXLoop(mem, 0, cursor_x + 1, 0)

\* int editorRowCursorXToRenderX(editor_row* row, int cursor_x), over the
\* memory mem that starts at row->chars.
editorRowCursorXToRenderX(mem, cursor_x) ==
    CursorXToRenderXLoop(mem, 0, cursor_x, 0)

RECURSIVE RenderXToCursorXLoop(_, _, _, _)
RenderXToCursorXLoop(row, cursor_x, cur_render_x, render_x) ==
    IF cursor_x < row.size
    THEN LET r == (IF row.chars[cursor_x + 1] = TAB
                   THEN cur_render_x + (TTE_TAB_STOP - 1) - (cur_render_x % TTE_TAB_STOP)
                   ELSE cur_render_x) + 1
         IN IF r > render_x
            THEN cursor_x
            ELSE RenderXToCursorXLoop(row, cursor_x + 1, r, render_x)
    ELSE cursor_x

\* editorRowRenderXToCursorX with cur_render_x >= render_x for
\* cur_render_x > render_x.
editorRowRenderXToCursorX_AtLeast(row, render_x) ==
    RenderXToCursorXLoop(row, 0, 0, render_x - 1)

\* int editorRowRenderXToCursorX(editor_row* row, int render_x)
editorRowRenderXToCursorX(row, render_x) ==
    RenderXToCursorXLoop(row, 0, 0, render_x)

RECURSIVE PadToTabStop(_)
\* while (idx % TTE_TAB_STOP != 0) row->render[idx++] = ' ';
PadToTabStop(render) ==
    IF Len(render) % TTE_TAB_STOP # 0
    THEN PadToTabStop(Append(render, SPACE))
    ELSE render

RECURSIVE RenderLoop(_, _, _, _)
RenderLoop(chars, size, j, render) ==
    IF j < size
    THEN IF chars[j + 1] = TAB
         THEN RenderLoop(chars, size, j + 1, PadToTabStop(Append(render, SPACE)))
         ELSE RenderLoop(chars, size, j + 1, Append(render, chars[j + 1]))
    ELSE render

\* void editorUpdateRow(editor_row* row): render and render_size rebuilt
\* from chars and size.
editorUpdateRow(row) ==
    LET render == RenderLoop(row.chars, row.size, 0, <<>>)
    IN [row EXCEPT !.render = render, !.render_size = Len(render)]

\* The row editorInsertRow builds at ec.row[at] from the bytes s.
NewRow(s) ==
    editorUpdateRow([size |-> Len(s), render_size |-> 0, chars |-> s, render |-> <<>>])

\* editorInsertRow with an index outside [0, num_rows] moved to the nearer
\* end instead of being turned down.
editorInsertRow_Clamped(e, at, s) ==
    LET a == IF at < 0 THEN 0 ELSE IF at > e.num_rows THEN e.num_rows ELSE at
    IN [e EXCEPT !.row = SubSeq(e.row, 1, a) \o <<NewRow(s)>>
                             \o SubSeq(e.row, a + 1, e.num_rows),
                 !.num_rows = e.num_rows + 1,
                 !.dirty = e.dirty + 1]

\* void editorInsertRow(int at, char* s, size_t line_len)
editorInsertRow(e, at, s) ==
    IF at < 0 \/ at > e.num_rows
    THEN e
    ELSE [e EXCEPT !.row = SubSeq(e.row, 1, at) \o <<NewRow(s)>>
                              \o SubSeq(e.row, at + 1, e.num_rows),
                   !.num_rows = e.num_rows + 1,
                   !.dirty = e.dirty + 1]

\* void editorDelRow(int at)
editorDelRow(e, at) ==
    IF at < 0 \/ at >= e.num_rows
    THEN e
    ELSE [e EXCEPT !.row = SubSeq(e.row, 1, at) \o SubSeq(e.row, at + 2, e.num_rows),
                   !.num_rows = e.num_rows - 1,
                   !.dirty = e.dirty + 1]

\* The row part of editorRowInsertChar: at is clamped to the row's size,
\* the byte c is stored there and the render is rebuilt.
RowInsertChar(row, at, c) ==
    LET a == IF at < 0 \/ at > row.size THEN row.size ELSE at
    IN editorUpdateRow([row EXCEPT
           !.chars = SubSeq(row.chars, 1, a) \o <<c % 256>> \o SubSeq(row.chars, a + 1, row.size),
           !.size = row.size + 1])

\* void editorRowInsertChar(editor_row* row, int at, int c), row = &ec.row[y]
editorRowInsertChar(e, y, at, c) ==
    [e EXCEPT !.row[y + 1] = RowInsertChar(e.row[y + 1], at, c),
              !.dirty = e.dirty + 1]

\* The row part of editorRowAppendString.
RowAppendString(row, s) ==
    editorUpdateRow([row EXCEPT !.chars = row.chars \o s,
                                !.size = row.size + Len(s)])

\* void editorRowAppendString(editor_row* row, char* s, size_t len), row = &ec.row[y]
editorRowAppendString(e, y, s) ==
    [e EXCEPT !.row[y + 1] = RowAppendString(e.row[y + 1], s),
              !.dirty = e.dirty + 1]

\* editorRowDelChar without its memmove: the row loses its last byte.
RowDelChar_NoMove(row, at) ==
    editorUpdateRow([row EXCEPT !.chars = SubSeq(row.chars, 1, row.size - 1),
                                !.size = row.size - 1])

\* The row part of editorRowDelChar (taken when at is inside the row).
RowDelChar(row, at) ==
    editorUpdateRow([row EXCEPT
        !.chars = SubSeq(row.chars, 1, at) \o SubSeq(row.chars, at + 2, row.size),
        !.size = row.size - 1])

\* void editorRowDelChar(editor_row* row, int at), row = &ec.row[y]
editorRowDelChar(e, y, at) ==
    IF at < 0 \/ at >= e.row[y + 1].size
    THEN e
    ELSE [e EXCEPT !.row[y + 1] = RowDelChar(e.row[y + 1], at),
                   !.dirty = e.dirty + 1]

(***************************************************************************)
(* Editor operations                                                       *)
(***************************************************************************)

\* ec.row[y] lies inside the row array.
InBounds(e, y) == y >= 0 /\ y < e.num_rows

\* editorInsertChar reaches &ec.row[ec.cursor_y] outside the row array.
InsertCharOob(e) ==
    ~InBounds(IF e.cursor_y = e.num_rows THEN editorInsertRow(e, e.num_rows, <<>>) ELSE e,
              e.cursor_y)

\* void editorInsertChar(int c).  Out of bounds, the bytes land outside the
\* rows and the counters are bumped as on the ordinary path.
editorInsertChar(e, c) ==
    LET e1 == IF e.cursor_y = e.num_rows
              THEN editorInsertRow(e, e.num_rows, <<>>)
              ELSE e
        e2 == IF InBounds(e1, e1.cursor_y)
              THEN editorRowInsertChar(e1, e1.cursor_y, e1.cursor_x, c)
              ELSE [e1 EXCEPT !.dirty = e1.dirty + 1]
    IN [e2 EXCEPT !.cursor_x = e2.cursor_x + 1]

\* editorInsertNewline splits a row that is outside the row array, or at a
\* column behind the row's end.
InsertNewlineOob(e) ==
    /\ e.cursor_x # 0
    /\ IF InBounds(e, e.cursor_y)
       THEN e.cursor_x < 0 \/ e.cursor_x > e.row[e.cursor_y + 1].size
       ELSE TRUE

\* editorInsertNewline without the editorUpdateRow(row) behind the
\* truncation of the split row.
editorInsertNewline_NoUpdate(e) ==
    LET e1 == IF e.cursor_x = 0
              THEN editorInsertRow(e, e.cursor_y, <<>>)
              ELSE IF InsertNewlineOob(e)
              THEN e
              ELSE LET row == e.row[e.cursor_y + 1]
                       e0 == editorInsertRow(e, e.cursor_y + 1,
                                 SubSeq(row.chars, e.cursor_x + 1, row.size))
                   IN [e0 EXCEPT !.row[e.cursor_y + 1] =
                          [row EXCEPT !.size = e.cursor_x,
                                      !.chars = SubSeq(row.chars, 1, e.cursor_x)]]
    IN [e1 EXCEPT !.cursor_y = e.cursor_y + 1, !.cursor_x = 0]

\* editorInsertNewline without the truncation of the split row: the row
\* keeps the bytes that went to the new row.
editorInsertNewline_NoTruncate(e) ==
    LET e1 == IF e.cursor_x = 0
              THEN editorInsertRow(e, e.cursor_y, <<>>)
              ELSE IF InsertNewlineOob(e)
              THEN e
              ELSE LET row == e.row[e.cursor_y + 1]
                   IN editorInsertRow(e, e.cursor_y + 1,
                          SubSeq(row.chars, e.cursor_x + 1, row.size))
    IN [e1 EXCEPT !.cursor_y = e.cursor_y + 1, !.cursor_x = 0]

\* void editorInsertNewline()
editorInsertNewline(e) ==
    LET e1 == IF e.cursor_x = 0
              THEN editorInsertRow(e, e.cursor_y, <<>>)
              ELSE IF InsertNewlineOob(e)
              THEN e
              ELSE LET row == e.row[e.cursor_y + 1]
                       e0 == editorInsertRow(e, e.cursor_y + 1,
                                 SubSeq(row.chars, e.cursor_x + 1, row.size))
                   IN [e0 EXCEPT !.row[e.cursor_y + 1] =
                          editorUpdateRow([row EXCEPT
                              !.size = e.cursor_x,
                              !.chars = SubSeq(row.chars, 1, e.cursor_x)])]
    IN [e1 EXCEPT !.cursor_y = e.cursor_y + 1, !.cursor_x = 0]

\* editorDelChar reaches &ec.row[ec.cursor_y] (or the row before it)
\* outside the row array.
DelCharOob(e) ==
    /\ e.cursor_y # e.num_rows
    /\ ~(e.cursor_x = 0 /\ e.cursor_y = 0)
    /\ \/ ~InBounds(e, e.cursor_y)
       \/ (e.cursor_x <= 0 /\ ~InBounds(e, e.cursor_y - 1))

\* editorDelChar without the editorDelRow behind the join.
editorDelChar_NoDelRow(e, garbage) ==
    IF e.cursor_y = e.num_rows \/ (e.cursor_x = 0 /\ e.cursor_y = 0)
    THEN e
    ELSE IF e.cursor_x > 0
    THEN [(IF InBounds(e, e.cursor_y)
           THEN editorRowDelChar(e, e.cursor_y, e.cursor_x - 1)
           ELSE e) EXCEPT !.cursor_x = e.cursor_x - 1]
    ELSE IF DelCharOob(e)
    THEN [e EXCEPT !.cursor_x = garbage, !.cursor_y = e.cursor_y - 1]
    ELSE LET row == e.row[e.cursor_y + 1]
             e1 == [e EXCEPT !.cursor_x = e.row[e.cursor_y].size]
             e2 == editorRowAppendString(e1, e.cursor_y - 1, SubSeq(row.chars, 1, row.size))
         IN [e2 EXCEPT !.cursor_y = e.cursor_y - 1]

\* editorDelChar without its test for the start of the file: at row 0,
\* column 0 the row before row 0 is read, and row 0 deleted.
editorDelChar_NoStartTest(e, garbage) ==
    IF e.cursor_y = e.num_rows
    THEN e
    ELSE IF e.cursor_x = 0 /\ e.cursor_y = 0
    THEN [editorDelRow([e EXCEPT !.cursor_x = garbage, !.dirty = e.dirty + 1], 0)
             EXCEPT !.cursor_y = -1]
    ELSE IF e.cursor_x > 0
    THEN LET e1 == IF InBounds(e, e.cursor_y)
                   THEN editorRowDelChar(e, e.cursor_y, e.cursor_x - 1)
                   ELSE IF e.cursor_x - 1 >= garbage
                   THEN e
                   ELSE [e EXCEPT !.dirty = e.dirty + 1]
         IN [e1 EXCEPT !.cursor_x = e.cursor_x - 1]
    ELSE IF DelCharOob(e)
    THEN LET e1 == [e EXCEPT !.cursor_x = garbage, !.dirty = e.dirty + 1]
             e2 == editorDelRow(e1, e.cursor_y)
         IN [e2 EXCEPT !.cursor_y = e.cursor_y - 1]
    ELSE LET row == e.row[e.cursor_y + 1]
             e1 == [e EXCEPT !.cursor_x = e.row[e.cursor_y].size]
             e2 == editorRowAppendString(e1, e.cursor_y - 1, SubSeq(row.chars, 1, row.size))
             e3 == editorDelRow(e2, e.cursor_y)
         IN [e3 EXCEPT !.cursor_y = e.cursor_y - 1]

\* editorDelChar taking the cursor's column behind the append: the size of
\* the joined row.
editorDelChar_CursorBehind(e, garbage) ==
    IF e.cursor_y = e.num_rows
    THEN e
    ELSE IF e.cursor_x = 0 /\ e.cursor_y = 0
    THEN e
    ELSE IF e.cursor_x > 0
    THEN LET e1 == IF InBounds(e, e.cursor_y)
                   THEN editorRowDelChar(e, e.cursor_y, e.cursor_x - 1)
                   ELSE IF e.cursor_x - 1 >= garbage
                   THEN e
                   ELSE [e EXCEPT !.dirty = e.dirty + 1]
         IN [e1 EXCEPT !.cursor_x = e.cursor_x - 1]
    ELSE IF DelCharOob(e)
    THEN LET e1 == [e EXCEPT !.cursor_x = garbage, !.dirty = e.dirty + 1]
             e2 == editorDelRow(e1, e.cursor_y)
         IN [e2 EXCEPT !.cursor_y = e.cursor_y - 1]
    ELSE LET row == e.row[e.cursor_y + 1]
             e1 == editorRowAppendString(e, e.cursor_y - 1, SubSeq(row.chars, 1, row.size))
             e2 == [e1 EXCEPT !.cursor_x = e1.row[e.cursor_y].size]
             e3 == editorDelRow(e2, e.cursor_y)
         IN [e3 EXCEPT !.cursor_y = e.cursor_y - 1]

\* void editorDelChar().  garbage stands for the int an out-of-bounds read
\* of row[-1].size yields.
editorDelChar(e, garbage) ==
    IF e.cursor_y = e.num_rows
    THEN e
    ELSE IF e.cursor_x = 0 /\ e.cursor_y = 0
    THEN e
    ELSE IF e.cursor_x > 0
    THEN LET e1 == IF InBounds(e, e.cursor_y)
                   THEN editorRowDelChar(e, e.cursor_y, e.cursor_x - 1)
                   ELSE IF e.cursor_x - 1 >= garbage
                   THEN e
                   ELSE [e EXCEPT !.dirty = e.dirty + 1]
         IN [e1 EXCEPT !.cursor_x = e.cursor_x - 1]
    ELSE IF DelCharOob(e)
    THEN LET e1 == [e EXCEPT !.cursor_x = garbage, !.dirty = e.dirty + 1]
             e2 == editorDelRow(e1, e.cursor_y)
         IN [e2 EXCEPT !.cursor_y = e.cursor_y - 1]
    ELSE LET row == e.row[e.cursor_y + 1]
             e1 == [e EXCEPT !.cursor_x = e.row[e.cursor_y].size]
             e2 == editorRowAppendString(e1, e.cursor_y - 1, SubSeq(row.chars, 1, row.size))
             e3 == editorDelRow(e2, e.cursor_y)
         IN [e3 EXCEPT !.cursor_y = e.cursor_y - 1]

(***************************************************************************)
(* Cursor motion and scrolling                                             *)
(***************************************************************************)

\* editorMoveCursor reads ec.row[ec.cursor_y].size outside the row array
\* (ARROW_LEFT from column 0 of a row below the virtual one).
MoveCursorOob(e, key) ==
    key = ARROW_LEFT /\ e.cursor_x = 0 /\ e.cursor_y > 0 /\ ~InBounds(e, e.cursor_y - 1)

\* The size of the row the cursor is on, 0 when row is NULL.
RowLen(e) == IF e.cursor_y >= e.num_rows \/ e.cursor_y < 0
             THEN 0
             ELSE e.row[e.cursor_y + 1].size

\* void editorMoveCursor(int key)
editorMoveCursor(e, key, garbage) ==
    LET has_row == ~(e.cursor_y >= e.num_rows) /\ e.cursor_y >= 0
        size == RowLen(e)
        e1 == IF key = ARROW_LEFT
              THEN IF e.cursor_x # 0
                   THEN [e EXCEPT !.cursor_x = e.cursor_x - 1]
                   ELSE IF e.cursor_y > 0
                   THEN [e EXCEPT !.cursor_y = e.cursor_y - 1,
                                  !.cursor_x = IF InBounds(e, e.cursor_y - 1)
                                               THEN e.row[e.cursor_y].size
                                               ELSE garbage]
                   ELSE e
              ELSE IF key = ARROW_RIGHT
              THEN IF has_row /\ e.cursor_x < size
                   THEN [e EXCEPT !.cursor_x = e.cursor_x + 1]
                   ELSE IF has_row /\ e.cursor_x = size
                   THEN [e EXCEPT !.cursor_y = e.cursor_y + 1, !.cursor_x = 0]
                   ELSE e
              ELSE IF key = ARROW_UP
              THEN IF e.cursor_y # 0
                   THEN [e EXCEPT !.cursor_y = e.cursor_y - 1]
                   ELSE e
              ELSE IF key = ARROW_DOWN
              THEN IF e.cursor_y < e.num_rows
                   THEN [e EXCEPT !.cursor_y = e.cursor_y + 1]
                   ELSE e
              ELSE e
        row_len == RowLen(e1)
    IN IF e1.cursor_x > row_len
       THEN [e1 EXCEPT !.cursor_x = row_len]
       ELSE e1

RECURSIVE MoveCursorTimes(_, _, _)
\* while (times--) editorMoveCursor(key), for times >= 0 (ARROW_UP and
\* ARROW_DOWN read no row size out of bounds).
MoveCursorTimes(e, key, times) ==
    IF times = 0
    THEN e
    ELSE MoveCursorTimes(editorMoveCursor(e, key, 0), key, times - 1)

\* The PAGE_UP / PAGE_DOWN case of editorProcessKeypress.  A negative
\* screen_rows makes while (times--) count down through the whole int
\* range, which the cursor's vertical motion saturates long before: the
\* loop is cut at a count that reaches the same cursor.
PageMove(e, c) ==
    LET e1 == IF c = PAGE_UP
              THEN [e EXCEPT !.cursor_y = e.row_offset]
              ELSE [e EXCEPT !.cursor_y = e.row_offset + e.screen_rows - 1]
        times == IF e.screen_rows >= 0
                 THEN e.screen_rows
                 ELSE (IF e1.cursor_y < 0 THEN -e1.cursor_y ELSE e1.cursor_y) + e.num_rows + 1
    IN MoveCursorTimes(e1, IF c = PAGE_UP THEN ARROW_UP ELSE ARROW_DOWN, times)

\* Bytes an over-read behind a row's NUL terminator can find, as far as
\* the tab rule tells them apart.
GarbageBytes == {NUL, TAB}

\* How many bytes editorScroll reads behind the NUL terminator of the
\* cursor's row.
ScrollOverRead(e) ==
    IF InBounds(e, e.cursor_y) /\ e.cursor_x > e.row[e.cursor_y + 1].size + 1
    THEN e.cursor_x - e.row[e.cursor_y + 1].size - 1
    ELSE 0

\* void editorScroll(), behind holding the bytes found behind the row's
\* NUL terminator.
editorScroll(e, behind) ==
    LET rx == IF e.cursor_y < e.num_rows /\ e.cursor_y >= 0
              THEN editorRowCursorXToRenderX(
                       e.row[e.cursor_y + 1].chars \o <<NUL>> \o behind, e.cursor_x)
              ELSE 0
        ro1 == IF e.cursor_y < e.row_offset THEN e.cursor_y ELSE e.row_offset
        ro2 == IF e.cursor_y >= ro1 + e.screen_rows
               THEN e.cursor_y - e.screen_rows + 1
               ELSE ro1
        co1 == IF rx < e.col_offset THEN rx ELSE e.col_offset
        co2 == IF rx >= co1 + e.screen_cols
               THEN rx - e.screen_cols + 1
               ELSE co1
    IN [e EXCEPT !.render_x = rx, !.row_offset = ro2, !.col_offset = co2]

\* editorDrawStatusBar reads ec.row[ec.cursor_y].size outside the row array.
StatusBarOob(e) == ~InBounds(e, e.cursor_y)

(***************************************************************************)
(* Search                                                                  *)
(***************************************************************************)

RECURSIVE CStringLen(_, _)
\* The length of the C string held in s: the bytes before the first NUL.
CStringLen(s, n) ==
    IF n < Len(s) /\ s[n + 1] # NUL THEN CStringLen(s, n + 1) ELSE n

\* needle occurs in hay at offset k (counted from 0).
OccursAt(hay, needle, k) ==
    /\ k + Len(needle) <= Len(hay)
    /\ \A i \in 1..Len(needle) : hay[k + i] = needle[i]

RECURSIVE StrStrFrom(_, _, _)
StrStrFrom(hay, needle, k) ==
    IF k + Len(needle) > Len(hay)
    THEN -1
    ELSE IF OccursAt(hay, needle, k)
    THEN k
    ELSE StrStrFrom(hay, needle, k + 1)

\* strstr(row->render, query): the offset of the first occurrence, -1 for
\* NULL.  Both arguments are C strings.
StrStr(render, query) ==
    StrStrFrom(SubSeq(render, 1, CStringLen(render, 0)), query, 0)

RECURSIVE SearchLoop(_, _, _)
\* for (i = 0; i < ec.num_rows; i++) of editorSearchCallback
SearchLoop(e, query, i) ==
    IF i < e.num_rows
    THEN LET row == e.row[i + 1]
             match == StrStr(row.render, query)
         IN IF match # -1
            THEN [e EXCEPT !.cursor_y = i,
                           !.cursor_x = editorRowRenderXToCursorX(row, match),
                           !.row_offset = e.num_rows]
            ELSE SearchLoop(e, query, i + 1)
    ELSE e

\* editorSearchCallback sending the cursor to the start of the file when
\* no row holds the query.
editorSearchCallback_HomeOnMiss(e, query, key) ==
    IF key = CARRIAGE_RETURN \/ key = ESC
    THEN e
    ELSE IF \A i \in 1..e.num_rows : StrStr(e.row[i].render, query) = -1
    THEN [e EXCEPT !.cursor_x = 0, !.cursor_y = 0]
    ELSE SearchLoop(e, query, 0)

\* void editorSearchCallback(char* query, int key)
editorSearchCallback(e, query, key) ==
    IF key = CARRIAGE_RETURN \/ key = ESC
    THEN e
    ELSE SearchLoop(e, query, 0)

(***************************************************************************)
(* File I/O                                                                *)
(***************************************************************************)

RECURSIVE RowsToStringLoop(_, _, _)
RowsToStringLoop(e, j, buf) ==
    IF j < e.num_rows
    THEN RowsToStringLoop(e, j + 1,
             buf \o SubSeq(e.row[j + 1].chars, 1, e.row[j + 1].size) \o <<NEWLINE>>)
    ELSE buf

\* char* editorRowsToString(int* buf_len)
editorRowsToString(e) == RowsToStringLoop(e, 0, <<>>)

RECURSIVE LineEnd(_, _)
\* getline: the length of the next line of text, its newline included.
LineEnd(text, n) ==
    IF n >= Len(text)
    THEN n
    ELSE IF text[n + 1] = NEWLINE
    THEN n + 1
    ELSE LineEnd(text, n + 1)

RECURSIVE StripAll(_, _)
StripAll(text, len) ==
    IF len > 0 /\ (text[len] = NEWLINE \/ text[len] = CARRIAGE_RETURN)
    THEN StripAll(text, len - 1)
    ELSE len

RECURSIVE OpenLoop_StripAll(_, _)
\* editorOpen's loop with while for if: every trailing newline and
\* carriage return of a line is dropped.
OpenLoop_StripAll(e, text) ==
    IF Len(text) = 0
    THEN e
    ELSE LET got == LineEnd(text, 0)
         IN OpenLoop_StripAll(
                editorInsertRow(e, e.num_rows, SubSeq(text, 1, StripAll(text, got))),
                SubSeq(text, got + 1, Len(text)))

RECURSIVE OpenLoop(_, _)
\* while ((line_len = getline(&line, &line_cap, file)) != -1) of editorOpen
OpenLoop(e, text) ==
    IF Len(text) = 0
    THEN e
    ELSE LET got == LineEnd(text, 0)
             line_len == IF got > 0 /\ (text[got] = NEWLINE \/ text[got] = CARRIAGE_RETURN)
                         THEN got - 1
                         ELSE got
         IN OpenLoop(editorInsertRow(e, e.num_rows, SubSeq(text, 1, line_len)),
                     SubSeq(text, got + 1, Len(text)))

\* void editorOpen(char* file_name), text being the content of the file.
editorOpen(e, file_name, text) ==
    [OpenLoop([e EXCEPT !.file_name = file_name], text) EXCEPT !.dirty = 0]

\* A file name is a non-empty C string; NULL is modelled by the empty one.
NULL == <<>>

\* editorSave clearing the dirty counter whatever open, ftruncate and write
\* returned.
SaveWrite_Always(e, ok) == [e EXCEPT !.dirty = 0]

\* The part of editorSave behind the file-name prompt: ok tells whether
\* open, ftruncate and write all succeeded.
SaveWrite(e, ok) ==
    IF ok THEN [e EXCEPT !.dirty = 0] ELSE e

\* open returned a descriptor, ftruncate did not fail and write returned
\* the length len of the buffer (written is what write returned: -1, or
\* the number of bytes it wrote).
SaveOk(opened, truncated, written, len) ==
    opened /\ truncated /\ written = len

\* void editorSave(): answer is what editorPrompt returns when it is asked
\* for a file name (NULL when the prompt is cancelled).
editorSave(e, answer, opened, truncated, written) ==
    LET e1 == IF e.file_name = NULL THEN [e EXCEPT !.file_name = answer] ELSE e
    IN IF e1.file_name = NULL
       THEN e1
       ELSE SaveWrite(e1, SaveOk(opened, truncated, written, Len(editorRowsToString(e1))))

\* The status message editorSave leaves.
SaveStatusMessage(e, answer, opened, truncated, written) ==
    IF e.file_name = NULL /\ answer = NULL
    THEN "Save aborted"
    ELSE IF SaveOk(opened, truncated, written, Len(editorRowsToString(e)))
    THEN "%d bytes written to disk"
    ELSE "Cant's save file. Error occurred: %s"

(***************************************************************************)
(* The editor loop                                                         *)
(***************************************************************************)
VARIABLES
    ec,            \* struct editor_config ec
    quit_times,    \* static int quit_times of editorProcessKeypress
    pc,            \* where the process is: "start" before main's loop, "key"
                   \* in editorReadKey called by editorProcessKeypress,
                   \* "prompt_key" in editorReadKey called by editorPrompt,
                   \* "exit" after exit(0), "fault" after an out-of-bounds
                   \* access ended the process
    prompt,        \* editorPrompt's buffer, its caller and the caller's locals
    quit_presses,  \* Ctrl-Q presses handled in a row by editorProcessKeypress
    quit_broken,   \* the key handled last was no Ctrl-Q and found quit_times
                   \* below TTE_QUIT_TIMES
    t              \* the harness of the row, edit and file specifications

vars == <<ec, quit_times, pc, prompt, quit_presses, quit_broken, t>>

NoPrompt == [kind |-> "none", buf |-> <<>>,
             saved_cursor_x |-> 0, saved_cursor_y |-> 0,
             saved_col_offset |-> 0, saved_row_offset |-> 0]

\* void initEditor(), ws_row by ws_col being the size getWindowSize reports
\* (editorUpdateWindowSize keeps two lines for the bars).
initEditor(ws_row, ws_col) ==
    [cursor_x |-> 0, cursor_y |-> 0, render_x |-> 0,
     row_offset |-> 0, col_offset |-> 0,
     screen_rows |-> ws_row - 2, screen_cols |-> ws_col,
     num_rows |-> 0, row |-> <<>>, dirty |-> 0,
     file_name |-> NULL]

RECURSIVE SeqsUpTo(_, _)
\* The sequences of at most n elements of S.
SeqsUpTo(S, n) ==
    IF n = 0
    THEN {<<>>}
    ELSE LET shorter == SeqsUpTo(S, n - 1)
         IN shorter \cup {Append(q, x) : q \in shorter, x \in S}

\* Bytes of the files the editor is started on.
FileBytes == {LETTER_A, NEWLINE}

\* The states the model follows: documents, counters and cursors within
\* the bounds.
Bounded(e) ==
    /\ e.num_rows <= MaxRows
    /\ \A i \in 1..e.num_rows : e.row[i].size <= MaxLen
    /\ e.dirty <= MaxDirty
    /\ e.cursor_y <= MaxCursorY
    /\ e.cursor_x <= MaxCursorX

Off == [pc |-> "off"]

\* The editor behind main()'s set-up: the window size is read, and a file
\* named on the command line (argc >= 2) is loaded.
MainStates ==
    {e \in {IF a[1] >= 2
            THEN editorOpen(initEditor(w[1], w[2]), <<LETTER_A>>, a[2])
            ELSE initEditor(w[1], w[2]) :
                w \in (MinWsRow..MaxWsRow) \X (1..MaxWsCol),
                a \in ({1} \X {<<>>}) \cup ({2} \X SeqsUpTo(FileBytes, MaxFile))} :
        Bounded(e)}

\* The editor when main() enters its loop.
InitMain ==
    /\ ec \in MainStates
    /\ quit_times = TTE_QUIT_TIMES
    /\ pc = "start"
    /\ prompt = NoPrompt
    /\ quit_presses = 0
    /\ quit_broken = FALSE

Init ==
    /\ InitMain
    /\ t = Off

\* What lies behind the NUL terminator of the cursor's row, for every
\* over-read editorScroll can make.
Behind(e) == [1..ScrollOverRead(e) -> GarbageBytes]

\* Sizes an out-of-bounds read of row->size can yield.
GarbageSizes == {0, 1}

\* editorRefreshScreen() touches memory outside the row array, or behind
\* a row's terminator.
RefreshOob(e) == StatusBarOob(e) \/ ScrollOverRead(e) > 0

\* ec.row is NULL: no row was inserted yet (row 0 is never deleted).
NullRowArray(e) == e.num_rows = 0

\* editorRefreshScreen() on the state e, the process then waiting in
\* editorReadKey at position at.  An out-of-bounds access reads what lies
\* there or ends the process; reading through a NULL row array ends it.
RefreshScreen(e, at) ==
    \/ /\ ~(StatusBarOob(e) /\ NullRowArray(e))
       /\ \E behind \in Behind(e) : ec' = editorScroll(e, behind)
       /\ pc' = at
    \/ /\ RefreshOob(e)
       /\ ec' = e
       /\ pc' = "fault"

\* The first editorRefreshScreen() of main's loop.
Start ==
    /\ pc = "start"
    /\ RefreshScreen(ec, "key")
    /\ UNCHANGED <<quit_times, prompt, quit_presses, quit_broken, t>>

\* editorProcessKeypress without its last statement: quit_times keeps its
\* value.
KeyDone_NoReset(e) ==
    /\ Bounded(e)
    /\ RefreshScreen(e, "key")
    /\ quit_presses' = 0
    /\ quit_broken' = (quit_times < TTE_QUIT_TIMES)
    /\ UNCHANGED <<quit_times, prompt, t>>

\* The end of editorProcessKeypress on every path but the Ctrl-Q warning,
\* and the editorRefreshScreen() that main's loop runs next.
KeyDone(e) ==
    /\ Bounded(e)
    /\ RefreshScreen(e, "key")
    /\ quit_times' = TTE_QUIT_TIMES
    /\ quit_presses' = 0
    /\ quit_broken' = (quit_times < TTE_QUIT_TIMES)
    /\ UNCHANGED <<prompt, t>>

\* case '\r'
KeyEnter ==
    /\ pc = "key"
    /\ KeyDone(editorInsertNewline(ec))

\* case CTRL_KEY('q') comparing quit_times > 1 for quit_times > 0.
KeyQuit_OneLess ==
    /\ pc = "key"
    /\ quit_presses' = quit_presses + 1
    /\ quit_broken' = FALSE
    /\ IF ec.dirty # 0 /\ quit_times > 1
       THEN /\ quit_times' = quit_times - 1
            /\ RefreshScreen(ec, "key")
       ELSE /\ pc' = "exit"
            /\ UNCHANGED <<ec, quit_times>>
    /\ UNCHANGED <<prompt, t>>

\* case CTRL_KEY('q')
KeyQuit ==
    /\ pc = "key"
    /\ quit_presses' = quit_presses + 1
    /\ quit_broken' = FALSE
    /\ IF ec.dirty # 0 /\ quit_times > 0
       THEN /\ quit_times' = quit_times - 1
            /\ RefreshScreen(ec, "key")
       ELSE /\ pc' = "exit"
            /\ UNCHANGED <<ec, quit_times>>
    /\ UNCHANGED <<prompt, t>>

\* case ARROW_UP, ARROW_DOWN, ARROW_LEFT, ARROW_RIGHT
KeyArrow ==
    /\ pc = "key"
    /\ \E c \in {ARROW_UP, ARROW_DOWN, ARROW_LEFT, ARROW_RIGHT} :
         \E garbage \in IF MoveCursorOob(ec, c) THEN GarbageSizes ELSE {0} :
            KeyDone(editorMoveCursor(ec, c, garbage))

\* case PAGE_UP, PAGE_DOWN
KeyPage ==
    /\ pc = "key"
    /\ \E c \in {PAGE_UP, PAGE_DOWN} : KeyDone(PageMove(ec, c))

\* case HOME_KEY
KeyHome ==
    /\ pc = "key"
    /\ KeyDone([ec EXCEPT !.cursor_x = 0])

\* case END_KEY
KeyEnd ==
    /\ pc = "key"
    /\ KeyDone(IF ec.cursor_y < ec.num_rows
               THEN [ec EXCEPT !.cursor_x = ec.row[ec.cursor_y + 1].size]
               ELSE ec)

\* case BACKSPACE, CTRL_KEY('h'), DEL_KEY
KeyDelete ==
    /\ pc = "key"
    /\ \E c \in {BACKSPACE, CTRL_KEY(104), DEL_KEY} :
         LET e1 == IF c = DEL_KEY THEN editorMoveCursor(ec, ARROW_RIGHT, 0) ELSE ec
         IN \E garbage \in IF DelCharOob(e1) THEN GarbageSizes ELSE {0} :
               KeyDone(editorDelChar(e1, garbage))

\* case CTRL_KEY('l'), '\x1b'
KeyIgnored ==
    /\ pc = "key"
    /\ KeyDone(ec)

\* Bytes that reach the default case of editorProcessKeypress.
InsertKeys == {LETTER_A, TAB, NEWLINE}

\* default: editorInsertChar(c)
KeyInsert ==
    /\ pc = "key"
    /\ \E c \in InsertKeys : KeyDone(editorInsertChar(ec, c))

\* The handler of some key touches memory outside the row array, which
\* can end the process (SIGSEGV, or abort() out of realloc).
KeyFault ==
    /\ pc = "key"
    /\ \/ InsertCharOob(ec)
       \/ InsertNewlineOob(ec)
       \/ DelCharOob(ec)
       \/ DelCharOob(editorMoveCursor(ec, ARROW_RIGHT, 0))
       \/ MoveCursorOob(ec, ARROW_LEFT)
    /\ pc' = "fault"
    /\ UNCHANGED <<ec, quit_times, prompt, quit_presses, quit_broken, t>>

(***************************************************************************)
(* editorPrompt                                                            *)
(***************************************************************************)

\* int iscntrl(int c) in the C locale, for c in 0..127.
iscntrl(c) == c < 32 \/ c = 127

\* callback(buf, c): editorSearchCallback for the search prompt, NULL for
\* the save prompt.
Callback(e, kind, buf, c) ==
    IF kind = "search" THEN editorSearchCallback(e, buf, c) ELSE e

\* case CTRL_KEY('s'): editorSave(), up to the first key of its prompt
\* when there is no file name yet.
KeySave ==
    /\ pc = "key"
    /\ IF ec.file_name = NULL
       THEN /\ prompt' = [NoPrompt EXCEPT !.kind = "save"]
            /\ RefreshScreen(ec, "prompt_key")
            /\ quit_presses' = 0
            /\ quit_broken' = FALSE
            /\ UNCHANGED <<quit_times, t>>
       ELSE \E ok \in BOOLEAN : KeyDone(SaveWrite(ec, ok))

\* case CTRL_KEY('f'): editorSearch(), up to the first key of its prompt.
KeySearch ==
    /\ pc = "key"
    /\ prompt' = [kind |-> "search", buf |-> <<>>,
                  saved_cursor_x |-> ec.cursor_x, saved_cursor_y |-> ec.cursor_y,
                  saved_col_offset |-> ec.col_offset, saved_row_offset |-> ec.row_offset]
    /\ RefreshScreen(ec, "prompt_key")
    /\ quit_presses' = 0
    /\ quit_broken' = FALSE
    /\ UNCHANGED <<quit_times, t>>

\* editorSearch without its else branch: nothing is put back.
editorSearchEnd_NoRestore(e, p, cancelled) == e

\* editorSearch putting the saved cursor and offsets back on every return
\* of the prompt.
editorSearchEnd_AlwaysRestore(e, p, cancelled) ==
    [e EXCEPT !.cursor_x = p.saved_cursor_x,
              !.cursor_y = p.saved_cursor_y,
              !.col_offset = p.saved_col_offset,
              !.row_offset = p.saved_row_offset]

\* What editorSearch does with the state e behind editorPrompt's return:
\* the cursor and the offsets saved in p are put back when the prompt was
\* cancelled (query == NULL), and nothing is done otherwise.
editorSearchEnd(e, p, cancelled) ==
    IF cancelled
    THEN [e EXCEPT !.cursor_x = p.saved_cursor_x,
                   !.cursor_y = p.saved_cursor_y,
                   !.col_offset = p.saved_col_offset,
                   !.row_offset = p.saved_row_offset]
    ELSE e

\* editorPrompt's buffer behind the key c, for the keys that keep the
\* prompt open: the erasing keys drop the last byte, a byte that is no
\* control byte is appended, any other key leaves buf alone.
editorPromptBuf(buf, c) ==
    IF c = DEL_KEY \/ c = CTRL_KEY(104) \/ c = BACKSPACE
    THEN IF Len(buf) # 0 THEN SubSeq(buf, 1, Len(buf) - 1) ELSE buf
    ELSE IF c = ESC \/ c = CARRIAGE_RETURN
    THEN buf
    ELSE IF ~iscntrl(c)
    THEN Append(buf, c % 256)
    ELSE buf

\* The prompt's loop goes round: the callback runs on the key, the screen
\* is refreshed and the next key awaited.
PromptAgain(buf, c) ==
    /\ prompt' = [prompt EXCEPT !.buf = buf]
    /\ RefreshScreen(Callback(ec, prompt.kind, buf, c), "prompt_key")
    /\ UNCHANGED <<quit_times, quit_presses, quit_broken, t>>

\* editorPrompt has returned to editorSave or editorSearch, which returns
\* to editorProcessKeypress, which returns to main's loop.
PromptReturn(e) ==
    /\ prompt' = NoPrompt
    /\ RefreshScreen(e, "key")
    /\ quit_times' = TTE_QUIT_TIMES
    /\ quit_broken' = (quit_times < TTE_QUIT_TIMES)
    /\ UNCHANGED <<quit_presses, t>>

\* c == DEL_KEY || c == CTRL_KEY('h') || c == BACKSPACE
PromptErase ==
    /\ pc = "prompt_key"
    /\ \E c \in {DEL_KEY, CTRL_KEY(104), BACKSPACE} :
         PromptAgain(IF Len(prompt.buf) # 0
                     THEN SubSeq(prompt.buf, 1, Len(prompt.buf) - 1)
                     ELSE prompt.buf, c)

\* c == '\x1b': editorPrompt returns NULL; editorSearch restores the saved
\* cursor and offsets, editorSave gives up.
PromptEscape ==
    /\ pc = "prompt_key"
    /\ LET e1 == Callback(ec, prompt.kind, prompt.buf, ESC)
       IN IF prompt.kind = "search"
          THEN PromptReturn(editorSearchEnd(e1, prompt, TRUE))
          ELSE PromptReturn(e1)

\* c == '\r'
PromptEnter ==
    /\ pc = "prompt_key"
    /\ IF Len(prompt.buf) # 0
       THEN LET e1 == Callback(ec, prompt.kind, prompt.buf, CARRIAGE_RETURN)
            IN IF prompt.kind = "search"
               THEN PromptReturn(editorSearchEnd(e1, prompt, FALSE))
               ELSE \E ok \in BOOLEAN :
                       PromptReturn(SaveWrite([e1 EXCEPT !.file_name = prompt.buf], ok))
       ELSE PromptAgain(prompt.buf, CARRIAGE_RETURN)

\* Printable bytes typed into a prompt.
PromptBytes == {LETTER_A}

\* !iscntrl(c): the byte is appended to buf.
PromptType ==
    /\ pc = "prompt_key"
    /\ Len(prompt.buf) < MaxBuf
    /\ \E c \in PromptBytes :
         /\ ~iscntrl(c)
         /\ PromptAgain(Append(prompt.buf, c % 256), c)

\* Control bytes typed into a prompt.
PromptControls == {TAB, CTRL_KEY(113)}

\* iscntrl(c): only the callback runs.
PromptControl ==
    /\ pc = "prompt_key"
    /\ \E c \in PromptControls :
         /\ iscntrl(c)
         /\ PromptAgain(prompt.buf, c)

Next ==
    \/ Start
    \/ KeyEnter
    \/ KeyQuit
    \/ KeySave
    \/ KeyArrow
    \/ KeyPage
    \/ KeyHome
    \/ KeyEnd
    \/ KeySearch
    \/ KeyDelete
    \/ KeyIgnored
    \/ KeyInsert
    \/ KeyFault
    \/ PromptErase
    \/ PromptEscape
    \/ PromptEnter
    \/ PromptType
    \/ PromptControl

Spec == Init /\ [][Next]_vars

(***************************************************************************)
(* The row operations on their own: a row, a column n and a byte c are     *)
(* drawn, and the coordinate maps or an insertion followed by a deletion   *)
(* are applied to row 0 of a one-row document.                             *)
(***************************************************************************)

\* Bytes of the rows: a tab and a byte that is none.
RowBytes == {TAB, LETTER_A}

RECURSIVE InsertRows(_, _)
\* editorInsertRow(ec.num_rows, ...) for each of rows in turn.
InsertRows(e, rows) ==
    IF Len(rows) = 0
    THEN e
    ELSE InsertRows(editorInsertRow(e, e.num_rows, rows[1]), SubSeq(rows, 2, Len(rows)))

\* The raw contents of the document's rows, in order.
RawRows(e) == [i \in 1..e.num_rows |-> SubSeq(e.row[i].chars, 1, e.row[i].size)]

Idle ==
    /\ quit_times = TTE_QUIT_TIMES
    /\ pc = "harness"
    /\ prompt = NoPrompt
    /\ quit_presses = 0
    /\ quit_broken = FALSE

InitRow ==
    /\ \E chars \in SeqsUpTo(RowBytes, MaxRowLen), c \in RowBytes :
         \E n \in -1..(Len(chars) + 1) :
            /\ ec = InsertRows(initEditor(MaxWsRow, MaxWsCol), <<chars>>)
            /\ t = [pc |-> "row", chars |-> chars, n |-> n, c |-> c,
                    render_x |-> 0, cursor_x |-> 0]
    /\ Idle

\* render_x = editorRowCursorXToRenderX(&ec.row[0], n), n a column of the row
RowToRender ==
    /\ t.pc = "row"
    /\ t.n >= 0 /\ t.n <= ec.row[1].size
    /\ t' = [t EXCEPT !.pc = "render_x",
                      !.render_x = editorRowCursorXToRenderX(ec.row[1].chars \o <<NUL>>, t.n)]
    /\ UNCHANGED <<ec, quit_times, pc, prompt, quit_presses, quit_broken>>

\* cursor_x = editorRowRenderXToCursorX(&ec.row[0], render_x)
RowToCursor ==
    /\ t.pc = "render_x"
    /\ t' = [t EXCEPT !.pc = "cursor_x",
                      !.cursor_x = editorRowRenderXToCursorX(ec.row[1], t.render_x)]
    /\ UNCHANGED <<ec, quit_times, pc, prompt, quit_presses, quit_broken>>

\* editorRowInsertChar(&ec.row[0], n, c)
RowInsert ==
    /\ t.pc = "row"
    /\ ec' = editorRowInsertChar(ec, 0, t.n, t.c)
    /\ t' = [t EXCEPT !.pc = "inserted"]
    /\ UNCHANGED <<quit_times, pc, prompt, quit_presses, quit_broken>>

\* editorRowDelChar(&ec.row[0], n)
RowDelete ==
    /\ t.pc = "inserted"
    /\ ec' = editorRowDelChar(ec, 0, t.n)
    /\ t' = [t EXCEPT !.pc = "deleted"]
    /\ UNCHANGED <<quit_times, pc, prompt, quit_presses, quit_broken>>

NextRow ==
    \/ RowToRender
    \/ RowToCursor
    \/ RowInsert
    \/ RowDelete

SpecRow == InitRow /\ [][NextRow]_vars

(***************************************************************************)
(* editorInsertNewline followed by editorDelChar, from every document and  *)
(* every cursor position on a row's column or on the line behind the last  *)
(* row.                                                                    *)
(***************************************************************************)

\* The documents of at most MaxRows rows of at most MaxLen bytes of S.
Documents(S) == SeqsUpTo(SeqsUpTo(S, MaxLen), MaxRows)

InitEdit ==
    /\ \E rows \in Documents(RowBytes) :
         \E cursor_y \in 0..Len(rows) :
            \E cursor_x \in 0..(IF cursor_y < Len(rows) THEN Len(rows[cursor_y + 1]) ELSE 0) :
               /\ ec = [InsertRows(initEditor(MaxWsRow, MaxWsCol), rows) EXCEPT
                           !.cursor_x = cursor_x, !.cursor_y = cursor_y]
               /\ t = [pc |-> "doc", rows |-> rows,
                       cursor_x |-> cursor_x, cursor_y |-> cursor_y]
    /\ Idle

\* editorInsertNewline()
EditNewline ==
    /\ t.pc = "doc"
    /\ ec' = editorInsertNewline(ec)
    /\ t' = [t EXCEPT !.pc = "split"]
    /\ UNCHANGED <<quit_times, pc, prompt, quit_presses, quit_broken>>

\* editorDelChar()
EditDelChar ==
    /\ t.pc = "split"
    /\ ec' = editorDelChar(ec, 0)
    /\ t' = [t EXCEPT !.pc = "joined"]
    /\ UNCHANGED <<quit_times, pc, prompt, quit_presses, quit_broken>>

NextEdit ==
    \/ EditNewline
    \/ EditDelChar

SpecEdit == InitEdit /\ [][NextEdit]_vars

(***************************************************************************)
(* editorRowsToString followed by editorOpen on the text it built.         *)
(***************************************************************************)

\* Bytes of the rows that are saved: any byte but a newline.
IoBytes == {TAB, CARRIAGE_RETURN, LETTER_A}

InitIO ==
    /\ \E rows \in Documents(IoBytes) :
         /\ ec = InsertRows(initEditor(MaxWsRow, MaxWsCol), rows)
         /\ t = [pc |-> "doc", rows |-> rows, text |-> <<>>]
    /\ Idle

\* buf = editorRowsToString(&len)
IoRowsToString ==
    /\ t.pc = "doc"
    /\ t' = [t EXCEPT !.pc = "text", !.text = editorRowsToString(ec)]
    /\ UNCHANGED <<ec, quit_times, pc, prompt, quit_presses, quit_broken>>

\* editorOpen() in a fresh editor, on a file holding buf
IoOpen ==
    /\ t.pc = "text"
    /\ ec' = editorOpen(initEditor(MaxWsRow, MaxWsCol), <<LETTER_A>>, t.text)
    /\ t' = [t EXCEPT !.pc = "loaded"]
    /\ UNCHANGED <<quit_times, pc, prompt, quit_presses, quit_broken>>

NextIO ==
    \/ IoRowsToString
    \/ IoOpen

SpecIO == InitIO /\ [][NextIO]_vars

(***************************************************************************)
(* editorSearch on its own: a document and a cursor position are drawn,    *)
(* search() is entered, and the keys of its prompt are handled one by one  *)
(* until Escape or Enter ends it.                                          *)
(***************************************************************************)

\* Longest query typed into the search prompt.
MaxQuery == 2

\* Bytes of the rows that are searched.
SearchRowBytes == {NUL, TAB, LETTER_A}

\* Keys of the search prompt that keep it open: bytes that are appended,
\* an erasing key, a control byte, and Enter (on an empty buffer).
SearchKeys == {LETTER_A, SPACE, BACKSPACE, TAB, CARRIAGE_RETURN}

\* The locals of editorSearch: the cursor and the offsets of e.
SavedBy(e) ==
    [saved_cursor_x |-> e.cursor_x, saved_cursor_y |-> e.cursor_y,
     saved_col_offset |-> e.col_offset, saved_row_offset |-> e.row_offset]

\* strstr finds query in some row of e.
SearchFinds(e, query) ==
    \E i \in 1..e.num_rows : StrStr(e.row[i].render, query) # -1

InitSearch ==
    /\ \E rows \in Documents(SearchRowBytes) :
         \E cursor_y \in 0..Len(rows) :
            \E cursor_x \in 0..(IF cursor_y < Len(rows) THEN Len(rows[cursor_y + 1]) ELSE 0) :
               /\ ec = editorScroll([InsertRows(initEditor(MaxWsRow, MaxWsCol), rows) EXCEPT
                                        !.cursor_x = cursor_x, !.cursor_y = cursor_y], <<>>)
               /\ t = [pc |-> "prompt", saved |-> SavedBy(ec), buf |-> <<>>,
                       scanned |-> FALSE, matched |-> FALSE,
                       match_x |-> cursor_x, match_y |-> cursor_y]
    /\ Idle

\* The state editorRefreshScreen is called on next when the key c is read
\* in the search prompt holding buf: behind the callback for a key that
\* keeps the prompt open, behind editorSearch's return for Escape and for
\* Enter on a buffer that is not empty.
SearchRound(e, saved, buf, c) ==
    IF c = ESC
    THEN editorSearchEnd(Callback(e, "search", buf, c), saved, TRUE)
    ELSE IF c = CARRIAGE_RETURN /\ Len(buf) # 0
    THEN editorSearchEnd(Callback(e, "search", buf, c), saved, FALSE)
    ELSE Callback(e, "search", editorPromptBuf(buf, c), c)

\* editorRefreshScreen() on e goes through (see RefreshScreen).
SearchRefreshed(e) ==
    /\ ~(StatusBarOob(e) /\ NullRowArray(e))
    /\ ec' = editorScroll(e, <<>>)

\* One round of editorPrompt's loop on a key that keeps the prompt open:
\* the buffer is edited, the callback runs, the screen is refreshed.
SearchKeystroke ==
    /\ t.pc = "prompt"
    /\ \E c \in SearchKeys :
         LET buf == editorPromptBuf(t.buf, c)
             e1 == SearchRound(ec, t.saved, t.buf, c)
             found == c # CARRIAGE_RETURN /\ SearchFinds(ec, buf)
         IN /\ c = CARRIAGE_RETURN => Len(t.buf) = 0
            /\ Len(buf) <= MaxQuery
            /\ SearchRefreshed(e1)
            /\ t' = [t EXCEPT !.buf = buf,
                              !.scanned = (c # CARRIAGE_RETURN),
                              !.matched = t.matched \/ found,
                              !.match_x = IF found THEN e1.cursor_x ELSE t.match_x,
                              !.match_y = IF found THEN e1.cursor_y ELSE t.match_y]
    /\ UNCHANGED <<quit_times, pc, prompt, quit_presses, quit_broken>>

\* Escape: editorPrompt returns NULL, editorSearch and
\* editorProcessKeypress return, main's loop refreshes the screen.
SearchEscape ==
    /\ t.pc = "prompt"
    /\ SearchRefreshed(SearchRound(ec, t.saved, t.buf, ESC))
    /\ t' = [t EXCEPT !.pc = "cancelled"]
    /\ UNCHANGED <<quit_times, pc, prompt, quit_presses, quit_broken>>

\* Enter on a buffer that is not empty: editorPrompt returns the query.
SearchEnter ==
    /\ t.pc = "prompt"
    /\ Len(t.buf) # 0
    /\ SearchRefreshed(SearchRound(ec, t.saved, t.buf, CARRIAGE_RETURN))
    /\ t' = [t EXCEPT !.pc = "accepted"]
    /\ UNCHANGED <<quit_times, pc, prompt, quit_presses, quit_broken>>

\* The frame behind some key is composed with the cursor outside the rows:
\* the status bar reads a row outside the row array, which can end the
\* process.
SearchFault ==
    /\ t.pc = "prompt"
    /\ \E c \in SearchKeys \cup {ESC} : StatusBarOob(SearchRound(ec, t.saved, t.buf, c))
    /\ t' = [t EXCEPT !.pc = "fault"]
    /\ UNCHANGED <<ec, quit_times, pc, prompt, quit_presses, quit_broken>>

NextSearch ==
    \/ SearchKeystroke
    \/ SearchEscape
    \/ SearchEnter
    \/ SearchFault

SpecSearch == InitSearch /\ [][NextSearch]_vars

(***************************************************************************)
(* editorSave on its own: a document, with or without a file name, the     *)
(* answer of the file-name prompt and the results of open, ftruncate and   *)
(* write are drawn, and editorSave runs.                                   *)
(***************************************************************************)

InitSave ==
    /\ \E rows \in Documents(RowBytes), file_name \in {NULL, <<LETTER_A>>} :
         \E cursor_y \in 0..Len(rows), dirty \in 0..MaxDirty :
            /\ ec = [InsertRows(initEditor(MaxWsRow, MaxWsCol), rows) EXCEPT
                        !.cursor_y = cursor_y, !.dirty = dirty, !.file_name = file_name]
            /\ \E answer \in {NULL, <<LETTER_A, LETTER_A>>},
                  opened \in BOOLEAN, truncated \in BOOLEAN,
                  written \in -1..Len(editorRowsToString(ec)) :
                  /\ file_name # NULL => answer = NULL
                  /\ ~opened => ~truncated
                  /\ ~truncated => written = -1
                  /\ t = [pc |-> "save", before |-> ec, answer |-> answer,
                          opened |-> opened, truncated |-> truncated,
                          written |-> written, status_msg |-> ""]
    /\ Idle

\* editorSave()
Save ==
    /\ t.pc = "save"
    /\ ec' = editorSave(ec, t.answer, t.opened, t.truncated, t.written)
    /\ t' = [t EXCEPT !.pc = "saved",
                      !.status_msg = SaveStatusMessage(ec, t.answer, t.opened,
                                                       t.truncated, t.written)]
    /\ UNCHANGED <<quit_times, pc, prompt, quit_presses, quit_broken>>

NextSave ==
    \/ Save

SpecSave == InitSave /\ [][NextSave]_vars

(***************************************************************************)
(* The editor loop with the document of the last load or save kept aside:  *)
(* the editing and motion keys, and Ctrl-S on a document that has a file   *)
(* name.                                                                   *)
(***************************************************************************)

InitDirty ==
    /\ InitMain
    /\ t = [pc |-> "dirty", rows |-> RawRows(ec)]

\* case CTRL_KEY('s') with a file name: editorSave() writes the rows, which
\* are the saved document from then on if the write went through.
DirtySave ==
    /\ pc = "key"
    /\ ec.file_name # NULL
    /\ \E ok \in BOOLEAN :
         /\ RefreshScreen(SaveWrite(ec, ok), "key")
         /\ t' = IF ok THEN [t EXCEPT !.rows = RawRows(ec)] ELSE t
    /\ quit_times' = TTE_QUIT_TIMES
    /\ quit_presses' = 0
    /\ quit_broken' = (quit_times < TTE_QUIT_TIMES)
    /\ UNCHANGED prompt

NextDirty ==
    \/ Start
    \/ KeyEnter
    \/ KeyArrow
    \/ KeyPage
    \/ KeyHome
    \/ KeyEnd
    \/ KeyDelete
    \/ KeyInsert
    \/ KeyFault
    \/ DirtySave

SpecDirty == InitDirty /\ [][NextDirty]_vars

(***************************************************************************)
(* editorReadKey on its own: the read() calls of one call of editorReadKey *)
(* and the key it returns.                                                 *)
(***************************************************************************)

\* Most reads that find no byte while editorReadKey waits for the first one.
MaxWaits == 2

\* Bytes the terminal sends.
KeyBytes ==
    {ESC, BRACKET, LETTER_O, TILDE, LETTER_A, TAB, 128, 232, 255}
        \cup DIGIT_0..DIGIT_9
        \cup {UPPER_A, UPPER_B, UPPER_C, UPPER_D, UPPER_F, UPPER_H}

\* What one read(STDIN_FILENO, &c, 1) yields: a byte, nothing within the
\* timeout (VTIME), or a failure with its errno.
ReadOutcomes ==
    {[nread |-> 1, c |-> b, errno |-> "none"] : b \in KeyBytes}
        \cup {[nread |-> 0, c |-> NUL, errno |-> "none"],
              [nread |-> -1, c |-> NUL, errno |-> "EAGAIN"],
              [nread |-> -1, c |-> NUL, errno |-> "EIO"]}

\* The value of a char holding the byte b: char is signed or unsigned by
\* the platform the editor is built for.
CharValue(b, char_signed) ==
    IF char_signed /\ b >= 128 THEN b - 256 ELSE b

\* nread == -1 && errno != EAGAIN taken for nread == -1.
ReadFatal_AnyError(r) ==
    r.nread = -1

\* nread == -1 && errno != EAGAIN
ReadFatal(r) ==
    r.nread = -1 /\ r.errno # "EAGAIN"

\* switch (seq[1]) behind ESC [ digit ~ with a default of DEL_KEY.
TildeKey_NoDefault(d) ==
    CASE d = DIGIT_0 + 1 \/ d = DIGIT_0 + 7 -> HOME_KEY
      [] d = DIGIT_0 + 4 \/ d = DIGIT_0 + 8 -> END_KEY
      [] d = DIGIT_0 + 5 -> PAGE_UP
      [] d = DIGIT_0 + 6 -> PAGE_DOWN
      [] OTHER -> DEL_KEY

\* switch (seq[1]) behind ESC [ digit ~; a digit without a case falls to
\* the return '\x1b' at the end.
TildeKey(d) ==
    CASE d = DIGIT_0 + 1 \/ d = DIGIT_0 + 7 -> HOME_KEY
      [] d = DIGIT_0 + 4 \/ d = DIGIT_0 + 8 -> END_KEY
      [] d = DIGIT_0 + 3 -> DEL_KEY
      [] d = DIGIT_0 + 5 -> PAGE_UP
      [] d = DIGIT_0 + 6 -> PAGE_DOWN
      [] OTHER -> ESC

\* switch (seq[1]) behind ESC [ and a byte that is no digit.
BracketKey(b) ==
    CASE b = UPPER_A -> ARROW_UP
      [] b = UPPER_B -> ARROW_DOWN
      [] b = UPPER_C -> ARROW_RIGHT
      [] b = UPPER_D -> ARROW_LEFT
      [] b = UPPER_H -> HOME_KEY
      [] b = UPPER_F -> END_KEY
      [] OTHER -> ESC

\* switch (seq[1]) behind ESC O.
LetterOKey(b) ==
    CASE b = UPPER_H -> HOME_KEY
      [] b = UPPER_F -> END_KEY
      [] OTHER -> ESC

\* seq[0] == '[' and seq[1] is a digit: a third byte is read.
ThirdByteRead(seq0, seq1) ==
    seq0 = BRACKET /\ seq1 >= DIGIT_0 /\ seq1 <= DIGIT_9

\* The reads editorReadKey makes behind an ESC are exactly reads: seq[1] is
\* read if seq[0] was, seq[2] if ESC [ digit was, and no read follows one
\* that yields no byte.
EscapeReads(reads, char_signed) ==
    /\ Len(reads) >= 1
    /\ IF reads[1].nread # 1
       THEN Len(reads) = 1
       ELSE /\ Len(reads) >= 2
            /\ IF reads[2].nread # 1
               THEN Len(reads) = 2
               ELSE IF ThirdByteRead(CharValue(reads[1].c, char_signed),
                                     CharValue(reads[2].c, char_signed))
               THEN Len(reads) = 3
               ELSE Len(reads) = 2

\* The branch if (c == '\x1b') of editorReadKey when the reads behind the
\* ESC yield reads.
EscapeKey(reads, char_signed) ==
    IF reads[Len(reads)].nread # 1
    THEN ESC
    ELSE LET seq0 == CharValue(reads[1].c, char_signed)
             seq1 == CharValue(reads[2].c, char_signed)
         IN IF seq0 = BRACKET
            THEN IF seq1 >= DIGIT_0 /\ seq1 <= DIGIT_9
                 THEN IF CharValue(reads[3].c, char_signed) = TILDE
                      THEN TildeKey(seq1)
                      ELSE ESC
                 ELSE BracketKey(seq1)
            ELSE IF seq0 = LETTER_O
            THEN LetterOKey(seq1)
            ELSE ESC

\* int editorReadKey() from the read that yields the first byte: first is
\* that read, reads are the ones made behind an ESC.
editorReadKey(first, reads, char_signed) ==
    LET c == CharValue(first.c, char_signed)
    IN IF c = ESC THEN EscapeKey(reads, char_signed) ELSE c

\* void die(const char* s): the screen is cleared, perror(s) prints the
\* message with the error, and the process exits with status 1.
die(s, errno) ==
    [cleared |-> TRUE, perror |-> <<s, errno>>, exit_status |-> 1]

Running == [cleared |-> FALSE, perror |-> <<>>, exit_status |-> -1]

\* The bytes that a sequence of reads yields.
ReadBytes(reads) ==
    LET got == SelectSeq(reads, LAMBDA r : r.nread = 1)
    IN [i \in 1..Len(got) |-> got[i].c]

InitKey ==
    /\ \E rows \in SeqsUpTo({<<LETTER_A>>}, 1) :
         ec = InsertRows(initEditor(MaxWsRow, MaxWsCol), rows)
    /\ \E char_signed \in BOOLEAN :
         t = [pc |-> "wait", char_signed |-> char_signed, reads |-> <<>>,
              key |-> NUL, process |-> Running]
    /\ Idle

\* The loop of editorReadKey goes round: the read yields no byte, and the
\* failure, if it is one, is EAGAIN.
KeyWait ==
    /\ t.pc = "wait"
    /\ Len(t.reads) < MaxWaits
    /\ \E r \in ReadOutcomes :
         /\ r.nread # 1
         /\ ~ReadFatal(r)
         /\ t' = [t EXCEPT !.reads = Append(t.reads, r)]
    /\ UNCHANGED <<ec, quit_times, pc, prompt, quit_presses, quit_broken>>

\* The read fails with another error: die("Error reading input").
KeyDie ==
    /\ t.pc = "wait"
    /\ \E r \in ReadOutcomes :
         /\ r.nread # 1
         /\ ReadFatal(r)
         /\ t' = [t EXCEPT !.pc = "died", !.reads = Append(t.reads, r),
                           !.process = die("Error reading input", r.errno)]
    /\ UNCHANGED <<ec, quit_times, pc, prompt, quit_presses, quit_broken>>

\* The read yields a byte that is not ESC: editorReadKey returns it.
KeyByte ==
    /\ t.pc = "wait"
    /\ \E r \in ReadOutcomes :
         /\ r.nread = 1
         /\ CharValue(r.c, t.char_signed) # ESC
         /\ t' = [t EXCEPT !.pc = "decoded", !.reads = Append(t.reads, r),
                           !.key = editorReadKey(r, <<>>, t.char_signed)]
    /\ UNCHANGED <<ec, quit_times, pc, prompt, quit_presses, quit_broken>>

\* The read yields ESC: editorReadKey reads on, up to three times, and
\* returns the key of the sequence.
KeyEscape ==
    /\ t.pc = "wait"
    /\ \E r \in ReadOutcomes, reads \in SeqsUpTo(ReadOutcomes, 3) :
         /\ r.nread = 1
         /\ CharValue(r.c, t.char_signed) = ESC
         /\ EscapeReads(reads, t.char_signed)
         /\ t' = [t EXCEPT !.pc = "decoded", !.reads = Append(t.reads, r) \o reads,
                           !.key = editorReadKey(r, reads, t.char_signed)]
    /\ UNCHANGED <<ec, quit_times, pc, prompt, quit_presses, quit_broken>>

NextKey ==
    \/ KeyWait
    \/ KeyDie
    \/ KeyByte
    \/ KeyEscape

SpecKey == InitKey /\ [][NextKey]_vars

(***************************************************************************)
(* The editor loop with SIGWINCH: the terminal is resized while the loop   *)
(* waits in editorReadKey, and the handler installed by initEditor runs.   *)
(***************************************************************************)

\* Most resizes of the terminal that are followed.
MaxResizes == 2

\* void editorUpdateWindowSize() when getWindowSize succeeds with ws_row by
\* ws_col.
editorUpdateWindowSize(e, ws_row, ws_col) ==
    [e EXCEPT !.screen_rows = ws_row - 2, !.screen_cols = ws_col]

\* void editorHandleSigwinch() up to its editorRefreshScreen().
editorHandleSigwinch(e, ws_row, ws_col) ==
    LET e1 == editorUpdateWindowSize(e, ws_row, ws_col)
        e2 == IF e1.cursor_y > e1.screen_rows
              THEN [e1 EXCEPT !.cursor_y = e1.screen_rows - 1]
              ELSE e1
    IN IF e2.cursor_x > e2.screen_cols
       THEN [e2 EXCEPT !.cursor_x = e2.screen_cols - 1]
       ELSE e2

InitWinch ==
    /\ InitMain
    /\ t = [pc |-> "winch", resizes |-> 0, handler_frames |-> 0, process |-> Running]

\* SIGWINCH arrives while read() waits for a key: editorHandleSigwinch runs
\* to its end, editorRefreshScreen() included, and read() is resumed.
Sigwinch ==
    /\ pc = "key"
    /\ t.resizes < MaxResizes
    /\ \E ws_row \in MinWsRow..MaxWsRow, ws_col \in 1..MaxWsCol :
         /\ RefreshScreen(editorHandleSigwinch(ec, ws_row, ws_col), "key")
         /\ t' = [t EXCEPT !.resizes = t.resizes + 1,
                           !.handler_frames = t.handler_frames + 1]
    /\ UNCHANGED <<quit_times, prompt, quit_presses, quit_broken>>

\* getWindowSize fails in the handler (ioctl fails, or reports no columns):
\* die("Failed to get window size").
SigwinchDie ==
    /\ pc = "key"
    /\ t.resizes < MaxResizes
    /\ \E errno \in {"none", "ENOTTY"} :
         t' = [t EXCEPT !.resizes = t.resizes + 1,
                        !.process = die("Failed to get window size", errno)]
    /\ pc' = "exit"
    /\ UNCHANGED <<ec, quit_times, prompt, quit_presses, quit_broken>>

NextWinch ==
    \/ Start
    \/ KeyEnter
    \/ KeyInsert
    \/ KeyHome
    \/ KeyFault
    \/ Sigwinch
    \/ SigwinchDie

SpecWinch == InitWinch /\ [][NextWinch]_vars

(***************************************************************************)
(* The process and its terminal: main() from its first statement, the      *)
(* terminal attributes, the alternate screen buffer, and the ways the      *)
(* process ends (exit(0), die, a signal).                                  *)
(***************************************************************************)

\* The calls of main()'s set-up that can fail, in the order they are made.
SetupCalls == <<"tcgetattr", "consoleBufferOpen", "tcsetattr", "getWindowSize", "fopen">>

\* The signals that end the process: none of them has a handler (only
\* SIGWINCH has one).
FatalSignals == {"SIGTERM", "SIGHUP"}

\* The terminal and the process before main() runs.
TermInit ==
    [pc |-> "term", termios |-> "orig", captured |-> FALSE, atexit |-> FALSE,
     entered |-> FALSE, leaves |-> 0, restores |-> 0, killed |-> "none",
     process |-> Running]

\* void disableRawMode(): tcsetattr puts the saved attributes back, or
\* fails and die is called.
disableRawMode(term, ok) ==
    IF ok
    THEN [term EXCEPT !.termios = "orig", !.restores = term.restores + 1]
    ELSE [term EXCEPT !.restores = term.restores + 1,
                      !.process = die("Failed to disable raw mode", "EIO")]

\* exit(status) / the exit(1) of die: the functions registered with atexit
\* run (disableRawMode, if enableRawMode got that far), and the process is
\* gone.
ProcessExit(term, process, ok) ==
    LET term1 == [term EXCEPT !.process = process]
    IN IF term.atexit THEN disableRawMode(term1, ok) ELSE term1

\* exit(0) behind editorClearScreen().
Exit0 == [cleared |-> TRUE, perror |-> <<>>, exit_status |-> 0]

\* void consoleBufferClose(): the two writes, the second of which leaves
\* the alternate screen buffer; die if one fails.
consoleBufferClose(term, failed, ok) ==
    IF failed = 1
    THEN ProcessExit(term, die("Error restoring buffer state", "EIO"), ok)
    ELSE IF failed = 2
    THEN ProcessExit(term, die("Error restoring buffer state", "EIO"), ok)
    ELSE [term EXCEPT !.leaves = term.leaves + 1]

\* case CTRL_KEY('q') from editorClearScreen() on: consoleBufferClose() and
\* exit(0).
QuitExit(term, failed, ok) ==
    LET term1 == consoleBufferClose(term, failed, ok)
    IN IF term1.process # Running THEN term1 ELSE ProcessExit(term1, Exit0, ok)

\* main() up to its loop when the call failed fails ("none": no call
\* fails): enableRawMode(), initEditor() and editorOpen().
Setup(term, failed, ok) ==
    IF failed = "tcgetattr"
    THEN ProcessExit(term, die("Failed to get current terminal state", "ENOTTY"), ok)
    ELSE LET term1 == [term EXCEPT !.captured = TRUE, !.atexit = TRUE]
         IN IF failed = "consoleBufferOpen"
            THEN ProcessExit(term1, die("Error changing terminal buffer", "EIO"), ok)
            ELSE LET term2 == [term1 EXCEPT !.entered = TRUE]
                 IN IF failed = "tcsetattr"
                    THEN ProcessExit(term2, die("Failed to set raw mode", "EIO"), ok)
                    ELSE LET term3 == [term2 EXCEPT !.termios = "raw"]
                         IN IF failed = "getWindowSize"
                            THEN ProcessExit(term3, die("Failed to get window size", "ENOTTY"), ok)
                            ELSE IF failed = "fopen"
                            THEN ProcessExit(term3, die("Failed to open the file", "ENOENT"), ok)
                            ELSE term3

InitTerm ==
    /\ ec = initEditor(2, 0)
    /\ t = TermInit
    /\ quit_times = TTE_QUIT_TIMES
    /\ pc = "boot"
    /\ prompt = NoPrompt
    /\ quit_presses = 0
    /\ quit_broken = FALSE

\* main() up to its loop.
Boot ==
    /\ pc = "boot"
    /\ \E failed \in {SetupCalls[i] : i \in 1..Len(SetupCalls)} \cup {"none"}, ok \in BOOLEAN :
         /\ t' = Setup(t, failed, ok)
         /\ ~t.atexit /\ failed = "tcgetattr" => ok
         /\ IF failed = "none"
            THEN /\ ec' \in MainStates
                 /\ pc' = "start"
            ELSE /\ ec' = ec
                 /\ pc' = "exit"
    /\ UNCHANGED <<quit_times, prompt, quit_presses, quit_broken>>

\* case CTRL_KEY('q'), the whole of it: the warning, or editorClearScreen(),
\* consoleBufferClose() and exit(0).
TermQuit ==
    /\ pc = "key"
    /\ quit_presses' = quit_presses + 1
    /\ quit_broken' = FALSE
    /\ IF ec.dirty # 0 /\ quit_times > 0
       THEN /\ quit_times' = quit_times - 1
            /\ RefreshScreen(ec, "key")
            /\ t' = t
       ELSE /\ pc' = "exit"
            /\ \E failed \in 0..2, ok \in BOOLEAN : t' = QuitExit(t, failed, ok)
            /\ UNCHANGED <<ec, quit_times>>
    /\ UNCHANGED prompt

\* editorReadKey's read fails with an error other than EAGAIN:
\* die("Error reading input").
TermDie ==
    /\ pc = "key"
    /\ \E ok \in BOOLEAN : t' = ProcessExit(t, die("Error reading input", "EIO"), ok)
    /\ pc' = "exit"
    /\ UNCHANGED <<ec, quit_times, prompt, quit_presses, quit_broken>>

\* A signal without a handler is delivered while the loop waits for a key:
\* the process is ended there and then, and no atexit function runs.
TermSignal ==
    /\ pc = "key"
    /\ \E sig \in FatalSignals : t' = [t EXCEPT !.killed = sig]
    /\ pc' = "exit"
    /\ UNCHANGED <<ec, quit_times, prompt, quit_presses, quit_broken>>

NextTerm ==
    \/ Boot
    \/ Start
    \/ KeyEnter
    \/ KeyInsert
    \/ TermQuit
    \/ TermDie
    \/ TermSignal

SpecTerm == InitTerm /\ [][NextTerm]_vars

(***************************************************************************)
(* One operation on a document: editorInsertRow at every index, and        *)
(* editorDelChar and editorInsertNewline at every cursor position on a     *)
(* row's column or on the line behind the last row.                        *)
(***************************************************************************)

\* The rows that are inserted.
NewRows == {<<>>, <<TAB, LETTER_A>>}

InitDoc ==
    /\ \E rows \in Documents(RowBytes) :
         \E cursor_y \in 0..Len(rows) :
            \E cursor_x \in 0..(IF cursor_y < Len(rows) THEN Len(rows[cursor_y + 1]) ELSE 0) :
               /\ ec = [InsertRows(initEditor(MaxWsRow, MaxWsCol), rows) EXCEPT
                           !.cursor_x = cursor_x, !.cursor_y = cursor_y]
               /\ t = [pc |-> "doc", before |-> ec, rows |-> rows, at |-> 0, s |-> <<>>,
                       c |-> NUL]
    /\ Idle

\* editorInsertRow(at, s, line_len)
DocInsertRow ==
    /\ t.pc = "doc"
    /\ \E at \in -1..(ec.num_rows + 1), s \in NewRows :
         /\ ec' = editorInsertRow(ec, at, s)
         /\ t' = [t EXCEPT !.pc = "inserted", !.at = at, !.s = s]
    /\ UNCHANGED <<quit_times, pc, prompt, quit_presses, quit_broken>>

\* editorDelChar()
DocDelChar ==
    /\ t.pc = "doc"
    /\ ec' = editorDelChar(ec, 0)
    /\ t' = [t EXCEPT !.pc = "deleted"]
    /\ UNCHANGED <<quit_times, pc, prompt, quit_presses, quit_broken>>

\* editorInsertNewline()
DocInsertNewline ==
    /\ t.pc = "doc"
    /\ ec' = editorInsertNewline(ec)
    /\ t' = [t EXCEPT !.pc = "split"]
    /\ UNCHANGED <<quit_times, pc, prompt, quit_presses, quit_broken>>

\* The keys that have a case of their own in editorProcessKeypress's
\* switch.
CaseKeys ==
    {CARRIAGE_RETURN, CTRL_KEY(113), CTRL_KEY(115), ARROW_UP, ARROW_DOWN, ARROW_LEFT,
     ARROW_RIGHT, PAGE_UP, PAGE_DOWN, HOME_KEY, END_KEY, CTRL_KEY(102), BACKSPACE,
     CTRL_KEY(104), DEL_KEY, CTRL_KEY(108), ESC}

\* Keys that are pressed on their own: a letter, a space, a tab, Ctrl-A,
\* Ctrl-J, and the two keys of the case that does nothing.
PlainKeys == {LETTER_A, SPACE, TAB, CTRL_KEY(LETTER_A), NEWLINE, CTRL_KEY(108), ESC}

\* The switch of editorProcessKeypress for a key of the empty case
\* (CTRL_KEY('l'), '\x1b') or of the default case.
PlainKeypress(e, c) ==
    IF c = CTRL_KEY(108) \/ c = ESC
    THEN e
    ELSE editorInsertChar(e, c)

\* editorProcessKeypress() when editorReadKey returns a key of the empty
\* or of the default case.
DocKeypress ==
    /\ t.pc = "doc"
    /\ \E c \in PlainKeys :
         /\ c \in CaseKeys => c \in {CTRL_KEY(108), ESC}
         /\ ec' = PlainKeypress(ec, c)
         /\ t' = [t EXCEPT !.pc = "pressed", !.c = c]
    /\ UNCHANGED <<quit_times, pc, prompt, quit_presses, quit_broken>>

\* case DEL_KEY: editorMoveCursor(ARROW_RIGHT), then editorDelChar().
DocDelete ==
    /\ t.pc = "doc"
    /\ ec' = editorDelChar(editorMoveCursor(ec, ARROW_RIGHT, 0), 0)
    /\ t' = [t EXCEPT !.pc = "forward", !.c = DEL_KEY]
    /\ UNCHANGED <<quit_times, pc, prompt, quit_presses, quit_broken>>

NextDoc ==
    \/ DocInsertRow
    \/ DocDelChar
    \/ DocInsertNewline
    \/ DocKeypress
    \/ DocDelete

SpecDoc == InitDoc /\ [][NextDoc]_vars

(***************************************************************************)
(* The editor loop when reads time out: read() comes back without a byte   *)
(* every tenth of a second (VMIN = 0, VTIME = 1) while no key is pressed.  *)
(***************************************************************************)

\* The reads without a byte between two keys are counted up to MaxIdle, and
\* then from 1 again.
MaxIdle == 3

InitIdle ==
    /\ InitMain
    /\ t = [pc |-> "idle", idle |-> 0]

\* read() returns 0 in editorReadKey's loop: the loop goes round, and
\* editorReadKey does not return.
ReadTimeout ==
    /\ pc = "key"
    /\ t' = [t EXCEPT !.idle = IF t.idle < MaxIdle THEN t.idle + 1 ELSE 1]
    /\ UNCHANGED <<ec, quit_times, pc, prompt, quit_presses, quit_broken>>

\* read() returns a byte that reaches the default case: editorReadKey
\* returns it, editorProcessKeypress inserts it, and main's loop composes
\* the next frame.
IdleKey ==
    /\ pc = "key"
    /\ \E c \in InsertKeys :
         /\ Bounded(editorInsertChar(ec, c))
         /\ RefreshScreen(editorInsertChar(ec, c), "key")
    /\ t' = [t EXCEPT !.idle = 0]
    /\ quit_times' = TTE_QUIT_TIMES
    /\ quit_presses' = 0
    /\ quit_broken' = (quit_times < TTE_QUIT_TIMES)
    /\ UNCHANGED prompt

NextIdle ==
    \/ Start
    \/ ReadTimeout
    \/ IdleKey

\* The program takes its steps (the first frame, the next read); whether a
\* key is pressed is up to the user.
SpecIdle ==
    /\ InitIdle
    /\ [][NextIdle]_vars
    /\ WF_vars(Start)
    /\ WF_vars(ReadTimeout)

(***************************************************************************)
(* editorPrompt on its own (callback == NULL): the keys typed into it, its *)
(* buffer and what it returns.                                             *)
(***************************************************************************)

\* Most bytes typed into the prompt on its own.
MaxPrompt == 3

\* Keys typed into the prompt.
PromptKeys ==
    {LETTER_A, SPACE, NUL, TAB, BACKSPACE, CTRL_KEY(104), DEL_KEY,
     CARRIAGE_RETURN, ESC} \cup (ARROW_LEFT..END_KEY)

\* What iscntrl(c) can yield: its value for a character, anything for an
\* int that is neither an unsigned char nor EOF (the behaviour is
\* undefined).
IscntrlOutcomes(c) ==
    IF c >= 0 /\ c < 128 THEN {iscntrl(c)} ELSE BOOLEAN

\* The loop of editorPrompt is left on Enter for every buffer.
PromptEnds_AnyEnter(buf, c) ==
    c = ESC \/ c = CARRIAGE_RETURN

\* The key c makes editorPrompt return: Escape, or Enter on a buffer that
\* is not empty.
PromptEnds(buf, c) ==
    c = ESC \/ (c = CARRIAGE_RETURN /\ Len(buf) # 0)

\* What editorPrompt returns on the key c: NULL on Escape, and buf, a C
\* string, otherwise.
PromptResult(buf, c) ==
    IF c = ESC
    THEN [null |-> TRUE, str |-> <<>>]
    ELSE [null |-> FALSE, str |-> SubSeq(buf, 1, CStringLen(buf, 0))]

\* buf behind a key that keeps the prompt open, cntrl being what
\* iscntrl(c) yields.
PromptBuf(buf, c, cntrl) ==
    IF c = DEL_KEY \/ c = CTRL_KEY(104) \/ c = BACKSPACE \/ c = CARRIAGE_RETURN
    THEN editorPromptBuf(buf, c)
    ELSE IF cntrl THEN buf ELSE Append(buf, c % 256)

InitPrompt ==
    /\ ec = initEditor(MaxWsRow, MaxWsCol)
    /\ t = [pc |-> "prompt", buf |-> <<>>, c |-> NUL,
            result |-> [null |-> TRUE, str |-> <<>>]]
    /\ Idle

\* A key that keeps the prompt open.
PromptKey ==
    /\ t.pc = "prompt"
    /\ \E c \in PromptKeys, cntrl \in BOOLEAN :
         /\ ~PromptEnds(t.buf, c)
         /\ cntrl \in IscntrlOutcomes(c)
         /\ Len(PromptBuf(t.buf, c, cntrl)) <= MaxPrompt
         /\ t' = [t EXCEPT !.buf = PromptBuf(t.buf, c, cntrl), !.c = c]
    /\ UNCHANGED <<ec, quit_times, pc, prompt, quit_presses, quit_broken>>

\* A key that makes editorPrompt return.
PromptLeave ==
    /\ t.pc = "prompt"
    /\ \E c \in PromptKeys :
         /\ PromptEnds(t.buf, c)
         /\ t' = [t EXCEPT !.pc = "returned", !.c = c, !.result = PromptResult(t.buf, c)]
    /\ UNCHANGED <<ec, quit_times, pc, prompt, quit_presses, quit_broken>>

NextPrompt ==
    \/ PromptKey
    \/ PromptLeave

SpecPrompt == InitPrompt /\ [][NextPrompt]_vars

(***************************************************************************)
(* Properties of the editor loop (Spec)                                    *)
(***************************************************************************)

\* C1: after any sequence of key events from an empty or loaded document,
\* 0 <= cursor_y <= num_rows, cursor_x lies in [0, size of row cursor_y]
\* when cursor_y < num_rows, and cursor_x = 0 when cursor_y = num_rows.
C1_CursorInBounds ==
    /\ 0 <= ec.cursor_y
    /\ ec.cursor_y <= ec.num_rows
    /\ IF InBounds(ec, ec.cursor_y)
       THEN 0 <= ec.cursor_x /\ ec.cursor_x <= ec.row[ec.cursor_y + 1].size
       ELSE ec.cursor_x = 0

\* C2: whenever editorScroll has just run (the process waits for the next
\* key), row_offset <= cursor_y < row_offset + screen_rows and
\* col_offset <= render_x < col_offset + screen_cols, for every terminal
\* size getWindowSize accepts.
C2_ScrollInvariant ==
    pc \in {"key", "prompt_key"} =>
        /\ ec.row_offset <= ec.cursor_y
        /\ ec.cursor_y < ec.row_offset + ec.screen_rows
        /\ ec.col_offset <= ec.render_x
        /\ ec.render_x < ec.col_offset + ec.screen_cols

RECURSIVE TabExpansion(_)
\* The tab expansion of raw: each tab replaced by 1 to 8 spaces up to the
\* next multiple of 8, every other byte unchanged.
TabExpansion(raw) ==
    IF Len(raw) = 0
    THEN <<>>
    ELSE LET front == TabExpansion(SubSeq(raw, 1, Len(raw) - 1))
             last == raw[Len(raw)]
         IN IF last = TAB
            THEN front \o [i \in 1..(TTE_TAB_STOP - (Len(front) % TTE_TAB_STOP)) |-> SPACE]
            ELSE Append(front, last)

\* C3: between operations, every row's render is the tab expansion of its
\* raw content and render_size is the length of that expansion.
C3_RenderConsistent ==
    \A i \in 1..ec.num_rows :
        LET raw == SubSeq(ec.row[i].chars, 1, ec.row[i].size)
        IN /\ ec.row[i].render = TabExpansion(raw)
           /\ ec.row[i].render_size = Len(TabExpansion(raw))

\* A row holding a tab was split by Enter: the truncated row and the new
\* row are both on screen.
C3_Witness ==
    /\ pc = "key"
    /\ ec.num_rows = 2
    /\ ec.row[1].chars = <<TAB>>
    /\ ec.row[1].render_size = TTE_TAB_STOP
    /\ ec.row[2].chars = <<LETTER_A>>
    /\ ec.cursor_y = 1
    /\ ec.dirty > 0

\* C4: after any sequence of key events and after load, no byte of any
\* row's raw content is the newline byte 0x0a.
C4_NoNewlineInRows ==
    \A i \in 1..ec.num_rows :
        \A j \in 1..ec.row[i].size : ec.row[i].chars[j] # NEWLINE

\* C10 as claimed: with a dirty buffer, the first TTE_QUIT_TIMES - 1
\* consecutive Ctrl-Q presses do not exit and press number TTE_QUIT_TIMES
\* exits.
C10_ExitOnNthPress ==
    ec.dirty # 0 =>
        /\ (quit_presses > 0 /\ quit_presses < TTE_QUIT_TIMES) => pc # "exit"
        /\ quit_presses = TTE_QUIT_TIMES => pc = "exit"

\* C10 as the code has it: with a dirty buffer, the first TTE_QUIT_TIMES
\* consecutive Ctrl-Q presses do not exit and press number
\* TTE_QUIT_TIMES + 1 exits.
C10_ExitOnPressAfterNth ==
    ec.dirty # 0 =>
        /\ (quit_presses > 0 /\ quit_presses <= TTE_QUIT_TIMES) => pc # "exit"
        /\ quit_presses = TTE_QUIT_TIMES + 1 => pc = "exit"
        /\ quit_presses <= TTE_QUIT_TIMES + 1

\* The editor left through Ctrl-Q with unsaved changes.
C10_Witness ==
    /\ pc = "exit"
    /\ ec.dirty # 0
    /\ quit_presses = TTE_QUIT_TIMES + 1
    /\ quit_times = 0

\* C11: with a dirty buffer, a key other than Ctrl-Q handled by the main
\* loop leaves quit_times at TTE_QUIT_TIMES, so that the Ctrl-Q presses are
\* counted from the start again, and no exit happens on the first Ctrl-Q
\* behind such a key.
C11_QuitCounterReset ==
    /\ (pc = "key" /\ quit_presses = 0) => quit_times = TTE_QUIT_TIMES
    /\ (pc = "key" /\ ec.dirty # 0) => quit_times = TTE_QUIT_TIMES - quit_presses
    /\ (pc = "exit" /\ ec.dirty # 0) => quit_presses # 1

\* A key other than Ctrl-Q was handled behind a Ctrl-Q warning, with
\* unsaved changes: the counter is whole again.
C11_Witness ==
    /\ pc = "key"
    /\ ec.dirty # 0
    /\ quit_broken
    /\ quit_presses = 0
    /\ quit_times = TTE_QUIT_TIMES

(***************************************************************************)
(* Properties of editorSearch (SpecSearch)                                 *)
(***************************************************************************)

\* query occurs in render at offset k (counted from 0), render taken in
\* its whole length.
RenderHasAt(render, query, k) ==
    /\ k >= 0
    /\ k + Len(query) <= Len(render)
    /\ SubSeq(render, k + 1, k + Len(query)) = query

\* The rows (counted from 0) whose render contains query.
RowsContaining(e, query) ==
    {i \in 0..(e.num_rows - 1) :
        \E k \in 0..e.row[i + 1].render_size : RenderHasAt(e.row[i + 1].render, query, k)}

\* The least number of the set of naturals S, which is not empty.
Least(S) == CHOOSE n \in S : \A m \in S : n <= m

\* C12: behind every key of the search prompt but Enter and Escape, if
\* some row's render contains the query, cursor_y is the first such row and
\* cursor_x is editorRowRenderXToCursorX of the offset of the first
\* occurrence in that row's render.
C12_SearchLandsOnFirstMatch ==
    (t.pc = "prompt" /\ t.scanned /\ RowsContaining(ec, t.buf) # {}) =>
        LET y == Least(RowsContaining(ec, t.buf))
            row == ec.row[y + 1]
            k == Least({j \in 0..row.render_size : RenderHasAt(row.render, t.buf, j)})
        IN /\ ec.cursor_y = y
           /\ ec.cursor_x = editorRowRenderXToCursorX(row, k)

\* C13: for every state search() is entered in and every sequence of keys
\* typed in its prompt, Escape leaves cursor_x, cursor_y, row_offset and
\* col_offset as they were when search() was entered.
C13_CancelRestores ==
    t.pc = "cancelled" =>
        /\ ec.cursor_x = t.saved.saved_cursor_x
        /\ ec.cursor_y = t.saved.saved_cursor_y
        /\ ec.row_offset = t.saved.saved_row_offset
        /\ ec.col_offset = t.saved.saved_col_offset

\* A search that had moved the cursor to a match in another row, behind a
\* tab, was cancelled.
C13_Witness ==
    /\ t.pc = "cancelled"
    /\ t.matched
    /\ t.buf = <<LETTER_A>>
    /\ t.match_y = 1
    /\ t.match_x = 1
    /\ t.saved.saved_cursor_y = 0
    /\ ec.cursor_y = 0
    /\ ec.row[2].chars = <<TAB, LETTER_A>>

\* C14: when Enter ends the search prompt on a query that is not empty,
\* the cursor stays where the last key that found a match put it, and
\* where it was when search() was entered if no key found one.
C14_AcceptKeepsMatch ==
    t.pc = "accepted" =>
        IF t.matched
        THEN ec.cursor_x = t.match_x /\ ec.cursor_y = t.match_y
        ELSE /\ ec.cursor_x = t.saved.saved_cursor_x
             /\ ec.cursor_y = t.saved.saved_cursor_y

\* Enter ended a search whose last query has no match: the cursor stays on
\* the match of the query typed before, in another row than at the start.
C14_Witness ==
    /\ t.pc = "accepted"
    /\ t.matched
    /\ t.buf = <<LETTER_A, SPACE>>
    /\ ~SearchFinds(ec, t.buf)
    /\ t.match_y = 1
    /\ t.saved.saved_cursor_y = 0
    /\ ec.cursor_y = 1

\* A key was handled in the search prompt without cancelling it: a key
\* that keeps the prompt open, or Enter accepting the query.
SearchKeyHandled ==
    /\ t.pc = "prompt"
    /\ t'.pc \in {"prompt", "accepted"}

\* C32: a key of the search prompt behind which no row's render contains
\* the current query leaves cursor_x, cursor_y, row_offset, col_offset and
\* the document as they were before that key.
C32_NoMatchChangesNothing ==
    [][(SearchKeyHandled /\ RowsContaining(ec, t'.buf) = {}) =>
          /\ ec'.cursor_x = ec.cursor_x
          /\ ec'.cursor_y = ec.cursor_y
          /\ ec'.row_offset = ec.row_offset
          /\ ec'.col_offset = ec.col_offset
          /\ ec'.row = ec.row
          /\ ec'.num_rows = ec.num_rows]_vars

\* A query without a match was scanned for with the cursor on the match
\* of the query typed before it, in another row than at the start.
C32_Witness ==
    /\ t.pc = "prompt"
    /\ t.scanned
    /\ t.matched
    /\ t.buf = <<LETTER_A, SPACE>>
    /\ RowsContaining(ec, t.buf) = {}
    /\ t.saved.saved_cursor_y = 0
    /\ t.match_y = 1
    /\ ec.cursor_y = 1
    /\ ec.cursor_x = t.match_x

(***************************************************************************)
(* Properties of editorSave (SpecSave)                                     *)
(***************************************************************************)

\* editorSave had a file name and open, ftruncate or write failed (a short
\* write included).
SaveFailed ==
    /\ t.pc = "saved"
    /\ (t.before.file_name # NULL \/ t.answer # NULL)
    /\ ~(t.opened /\ t.truncated /\ t.written = Len(editorRowsToString(t.before)))

\* The rows, the cursor and the dirty counter are what they were before
\* editorSave, and the failure is reported.
SaveFailureKeeps ==
    /\ t.status_msg = "Cant's save file. Error occurred: %s"
    /\ ec.dirty = t.before.dirty
    /\ ec.row = t.before.row
    /\ ec.num_rows = t.before.num_rows
    /\ ec.cursor_x = t.before.cursor_x
    /\ ec.cursor_y = t.before.cursor_y

\* The dirty counter changed only by being set to 0 behind a full write.
SaveClearsOnFullWrite ==
    (t.pc = "saved" /\ ec.dirty # t.before.dirty) =>
        /\ ec.dirty = 0
        /\ t.opened /\ t.truncated
        /\ t.written = Len(editorRowsToString(t.before))

\* C15 as claimed: when open, ftruncate or write fails (a short write
\* included), editorSave reports it in the status message, keeps the dirty
\* counter, the rows, the cursor and the file name as they were, and the
\* dirty counter becomes 0 only behind a full write.
C15_SaveFailureKeepsState ==
    /\ SaveFailed => (SaveFailureKeeps /\ ec.file_name = t.before.file_name)
    /\ SaveClearsOnFullWrite

\* C15 with the file name as the code leaves it: when open, ftruncate or
\* write fails (a short write included), editorSave reports it in the
\* status message and keeps the dirty counter, the rows and the cursor as
\* they were; the file name is kept too when there was one, and a name
\* just entered at the prompt stays the file name; the dirty counter
\* becomes 0 only behind a full write.
C15_SaveFailureKeepsDocument ==
    /\ SaveFailed =>
          /\ SaveFailureKeeps
          /\ ec.file_name = IF t.before.file_name # NULL
                            THEN t.before.file_name
                            ELSE t.answer
    /\ SaveClearsOnFullWrite

\* A short write into a file just named at the prompt: the unsaved
\* document is kept and stays dirty.
C15_Witness ==
    /\ SaveFailed
    /\ t.opened /\ t.truncated
    /\ t.written >= 0
    /\ t.before.file_name = NULL
    /\ t.before.dirty = 2
    /\ ec.dirty = 2
    /\ ec.num_rows = 2
    /\ ec.file_name = <<LETTER_A, LETTER_A>>

(***************************************************************************)
(* Properties of the dirty counter (SpecDirty)                             *)
(***************************************************************************)

\* The rows differ from the document of the last load or save only while
\* dirty is not 0.
DirtyWhileChanged ==
    (RawRows(ec) # t.rows) => ec.dirty # 0

\* A step that changes the raw content of a row or the sequence of rows
\* increases dirty.
ChangeIncreasesDirty ==
    (RawRows(ec') # RawRows(ec)) => ec'.dirty > ec.dirty

\* A keypress that leaves the rows as they are does not increase dirty.
NoOpKeepsDirty ==
    (pc = "key" /\ pc' = "key" /\ RawRows(ec') = RawRows(ec)) => ec'.dirty <= ec.dirty

\* C16: whenever the rows differ from the document of the last load or
\* save, dirty is not 0; every step that changes the raw content or the row
\* sequence increases dirty; a keypress that changes neither leaves dirty
\* as it is (or clears it, for a save).
C16_DirtyTracksChanges ==
    /\ []DirtyWhileChanged
    /\ [][ChangeIncreasesDirty]_vars
    /\ [][NoOpKeepsDirty]_vars

\* editorDrawRows draws the welcome message on line screen_rows / 3 of the
\* text area, and only while num_rows == 0.
DrawsWelcome(e) == e.num_rows = 0 /\ e.screen_rows > 0

\* C35: once num_rows >= 1 no key brings num_rows back to 0 (row 0 is
\* never removed), so the welcome message is never drawn after the buffer
\* first holds a row.
C35_NeverEmptyAgain ==
    [][ec.num_rows >= 1 => (ec'.num_rows >= 1 /\ ~DrawsWelcome(ec'))]_vars

\* A loaded document of two rows lost a row by a join and holds one row,
\* with the cursor at the start of the file.
C35_Witness ==
    /\ Len(t.rows) = 2
    /\ ec.num_rows = 1
    /\ ec.cursor_y = 0
    /\ ec.cursor_x = 0
    /\ ec.dirty > 0

(***************************************************************************)
(* Properties of editorReadKey (SpecKey)                                   *)
(***************************************************************************)

\* The byte sequences of the decoder table, each with its key.
KeySequences ==
    {<<<<ESC, BRACKET, DIGIT_0 + 1, TILDE>>, HOME_KEY>>,
     <<<<ESC, BRACKET, DIGIT_0 + 7, TILDE>>, HOME_KEY>>,
     <<<<ESC, BRACKET, UPPER_H>>, HOME_KEY>>,
     <<<<ESC, LETTER_O, UPPER_H>>, HOME_KEY>>,
     <<<<ESC, BRACKET, DIGIT_0 + 4, TILDE>>, END_KEY>>,
     <<<<ESC, BRACKET, DIGIT_0 + 8, TILDE>>, END_KEY>>,
     <<<<ESC, BRACKET, UPPER_F>>, END_KEY>>,
     <<<<ESC, LETTER_O, UPPER_F>>, END_KEY>>,
     <<<<ESC, BRACKET, DIGIT_0 + 3, TILDE>>, DEL_KEY>>,
     <<<<ESC, BRACKET, DIGIT_0 + 5, TILDE>>, PAGE_UP>>,
     <<<<ESC, BRACKET, DIGIT_0 + 6, TILDE>>, PAGE_DOWN>>,
     <<<<ESC, BRACKET, UPPER_A>>, ARROW_UP>>,
     <<<<ESC, BRACKET, UPPER_B>>, ARROW_DOWN>>,
     <<<<ESC, BRACKET, UPPER_C>>, ARROW_RIGHT>>,
     <<<<ESC, BRACKET, UPPER_D>>, ARROW_LEFT>>}

\* C17: editorReadKey returns the key of the table for each of its byte
\* sequences (Home for ESC [ 1 ~, ESC [ 7 ~, ESC [ H, ESC O H; End for
\* ESC [ 4 ~, ESC [ 8 ~, ESC [ F, ESC O F; Delete for ESC [ 3 ~; Page Up
\* for ESC [ 5 ~; Page Down for ESC [ 6 ~; Up, Down, Right, Left for
\* ESC [ A, B, C, D) and, for every first byte b other than ESC, the key
\* whose value is b.
C17_KeyDecoderTable ==
    t.pc = "decoded" =>
        LET bytes == ReadBytes(t.reads)
        IN /\ \A p \in KeySequences : bytes = p[1] => t.key = p[2]
           /\ bytes[1] # ESC => t.key = bytes[1]

\* C18: when the first byte is ESC and the bytes read are not one of the
\* table's sequences (a read behind the ESC yields no byte, ESC [ digit
\* is followed by a byte other than ~, the digit has no key, or the second
\* or third byte is any other), editorReadKey returns the bare Escape key;
\* and once a first byte was read the process is never ended by die.
C18_FallbackToEscape ==
    LET bytes == ReadBytes(t.reads)
    IN /\ (t.pc = "decoded" /\ bytes[1] = ESC /\ bytes \notin {p[1] : p \in KeySequences})
              => t.key = ESC
       /\ bytes # <<>> => (t.pc = "decoded" /\ t.process = Running)

\* ESC [ 9 ~ was read (a digit without a key), and Escape returned.
C18_Witness ==
    /\ t.pc = "decoded"
    /\ ReadBytes(t.reads) = <<ESC, BRACKET, DIGIT_9, TILDE>>
    /\ t.key = ESC
    /\ t.process = Running

\* A read that yields no byte and is no failure other than EAGAIN.
NoData(r) ==
    r.nread = 0 \/ (r.nread = -1 /\ r.errno = "EAGAIN")

\* While editorReadKey waits for the first byte, a read that returns zero
\* bytes or fails with EAGAIN leaves it waiting, and the editor's state as
\* it was.
WaitKeepsState ==
    (t.pc = "wait" /\ \E r \in ReadOutcomes : NoData(r) /\ t'.reads = Append(t.reads, r)) =>
        /\ t'.pc = "wait"
        /\ t'.process = Running
        /\ UNCHANGED <<ec, quit_times, pc, prompt, quit_presses, quit_broken>>

\* The process is ended only behind a read that failed with an error other
\* than EAGAIN, and then by die: screen cleared, error printed, status 1.
DiesOnOtherFailure ==
    /\ t.process # Running <=> t.pc = "died"
    /\ t.pc = "died" =>
          LET r == t.reads[Len(t.reads)]
          IN /\ r.nread = -1
             /\ r.errno # "EAGAIN"
             /\ t.process.cleared
             /\ t.process.perror = <<"Error reading input", r.errno>>
             /\ t.process.exit_status = 1

\* C19: while editorReadKey waits for the first byte of a key, a read that
\* returns zero bytes or fails with EAGAIN keeps it waiting without
\* changing the editor's state; only a read failure of another kind takes
\* the fatal path (screen cleared, error printed, exit status 1).
C19_TimeoutsAreNotErrors ==
    /\ []DiesOnOtherFailure
    /\ [][WaitKeepsState]_vars

\* editorReadKey is still waiting after a read that returned zero bytes
\* and one that failed with EAGAIN.
C19_Witness ==
    /\ t.pc = "wait"
    /\ t.process = Running
    /\ Len(t.reads) = 2
    /\ t.reads[1].nread = 0
    /\ t.reads[2].nread = -1
    /\ t.reads[2].errno = "EAGAIN"

\* C37: every byte editorReadKey consumes is part of the key it returns: a
\* call that returns a bare Escape, behind an incomplete or unrecognized
\* sequence too, has consumed the ESC byte and no other, so that the bytes
\* behind it are still there for the next calls.
C37_NoByteLost ==
    (t.pc = "decoded" /\ t.key = ESC) => ReadBytes(t.reads) = <<ESC>>

(***************************************************************************)
(* Properties of the resize handler (SpecWinch)                            *)
(***************************************************************************)

\* C20: the SIGWINCH handler never composes a frame (nor writes to the
\* terminal, nor reads the rows): every frame is composed by the main loop.
C20_ResizeIsDeferred ==
    t.handler_frames = 0

\* C21: a step of the SIGWINCH handler changes no field of the editor but
\* screen_rows and screen_cols, and what editorScroll derives from them
\* (render_x, row_offset, col_offset): cursor_x, cursor_y, the rows, dirty
\* and the file name are the same before and after.
C21_ResizeChangesOnlyGeometry ==
    [][(t'.resizes # t.resizes /\ pc' = "key") =>
           /\ ec'.cursor_x = ec.cursor_x
           /\ ec'.cursor_y = ec.cursor_y
           /\ ec'.row = ec.row
           /\ ec'.num_rows = ec.num_rows
           /\ ec'.dirty = ec.dirty
           /\ ec'.file_name = ec.file_name]_vars

(***************************************************************************)
(* Properties of the process and its terminal (SpecTerm)                   *)
(***************************************************************************)

\* The process has ended: by exit, or by a signal.
Gone == pc \in {"exit", "fault"}

\* C22: once enableRawMode has saved the original terminal attributes,
\* the process never ends (by Ctrl-Q, by die, or by a signal) without
\* disableRawMode having run to put them back.
C22_RawModeAlwaysUndone ==
    (Gone /\ t.captured) => t.restores >= 1

\* C23: when the process exits (status 0 or 1) after the alternate screen
\* buffer was entered, the sequence that leaves it was written before, and
\* it is never written more than once.
C23_AlternateScreenPaired ==
    /\ t.leaves <= 1
    /\ (pc = "exit" /\ t.entered /\ t.process.exit_status \in {0, 1}) => t.leaves = 1

(***************************************************************************)
(* Properties of one operation on a document (SpecDoc)                     *)
(***************************************************************************)

\* The rows with the row s put in at index a.
WithRowAt(rows, a, s) ==
    SubSeq(rows, 1, a) \o <<s>> \o SubSeq(rows, a + 1, Len(rows))

\* C24 as claimed: for every document of len rows and every index at,
\* at < 0 and at > len included, editorInsertRow(at, s) inserts one row
\* holding s at the index at clamped to [0, len], shifts the following
\* rows down by one and leaves the other rows as they were.
C24_InsertRowClamps ==
    t.pc = "inserted" =>
        LET len == Len(t.rows)
            a == IF t.at < 0 THEN 0 ELSE IF t.at > len THEN len ELSE t.at
        IN /\ ec.num_rows = len + 1
           /\ RawRows(ec) = WithRowAt(t.rows, a, t.s)

\* C24 for the code's treatment of the index: for every document of len
\* rows, editorInsertRow(at, s) with at in [0, len] inserts one row holding
\* s at index at, shifts the following rows down by one and leaves the
\* other rows as they were; with at < 0 or at > len it changes nothing
\* (rows, num_rows and dirty).
C24_InsertRowInRange ==
    t.pc = "inserted" =>
        IF t.at >= 0 /\ t.at <= Len(t.rows)
        THEN /\ ec.num_rows = Len(t.rows) + 1
             /\ RawRows(ec) = WithRowAt(t.rows, t.at, t.s)
             /\ ec.row[t.at + 1] = NewRow(t.s)
        ELSE ec = t.before

\* A row was to be inserted behind index len of a document of two rows,
\* and the document is as it was.
C24_Witness ==
    /\ t.pc = "inserted"
    /\ Len(t.rows) = 2
    /\ t.at = 3
    /\ t.s = <<TAB, LETTER_A>>
    /\ ec.num_rows = 2
    /\ RawRows(ec) = t.rows

\* The rows behind a forward delete at row y, column x of rows: the byte
\* under the cursor is removed, or the next row joined to row y when the
\* cursor is at the end of a row that has a successor, and nothing changes
\* otherwise.
ForwardDeleted(rows, x, y) ==
    IF y < Len(rows) /\ x < Len(rows[y + 1])
    THEN [rows EXCEPT ![y + 1] = SubSeq(rows[y + 1], 1, x)
                                     \o SubSeq(rows[y + 1], x + 2, Len(rows[y + 1]))]
    ELSE IF y + 1 < Len(rows)
    THEN SubSeq(rows, 1, y) \o <<rows[y + 1] \o rows[y + 2]>> \o SubSeq(rows, y + 3, Len(rows))
    ELSE rows

\* The cursor was at the end of the last row.
AtEndOfLastRow(e) ==
    /\ e.num_rows > 0
    /\ e.cursor_y = e.num_rows - 1
    /\ e.cursor_x = e.row[e.num_rows].size

\* C36: for every document and every cursor position the Delete key
\* leaves (cursor_x, cursor_y) unchanged; it removes the byte under the
\* cursor, or joins the next row onto the current one when the cursor is
\* at the end of a row that has a successor, and otherwise changes nothing.
C36_DeleteKeepsCursor ==
    t.pc = "forward" =>
        /\ ec.cursor_x = t.before.cursor_x
        /\ ec.cursor_y = t.before.cursor_y
        /\ RawRows(ec) = ForwardDeleted(t.rows, t.before.cursor_x, t.before.cursor_y)
        /\ (RawRows(ec) = t.rows => ec = t.before)

\* The same everywhere but at the end of the last row.
C36_DeleteBeforeEnd ==
    (t.pc = "forward" /\ ~AtEndOfLastRow(t.before)) =>
        /\ ec.cursor_x = t.before.cursor_x
        /\ ec.cursor_y = t.before.cursor_y
        /\ RawRows(ec) = ForwardDeleted(t.rows, t.before.cursor_x, t.before.cursor_y)
        /\ (RawRows(ec) = t.rows => ec = t.before)

\* At the end of the last row Delete leaves the document alone and puts
\* the cursor on the line behind it.
C36_DeleteAtEnd ==
    (t.pc = "forward" /\ AtEndOfLastRow(t.before)) =>
        /\ RawRows(ec) = t.rows
        /\ ec.dirty = t.before.dirty
        /\ ec.cursor_x = 0
        /\ ec.cursor_y = t.before.num_rows

(***************************************************************************)
(* Properties of the loop without input (SpecIdle)                         *)
(***************************************************************************)

\* C25: when a read has timed out with no input pending, editorReadKey
\* gives control back to main's loop, which comes round again (composes
\* its next frame) even if no key is ever pressed.
C25_KeyReadIsBounded ==
    (t.idle > 0) ~> (t.idle = 0)

\* The byte c is printable: a graphic character or the space.
Printable(c) == c >= SPACE /\ c < BACKSPACE

\* C26: in the main loop a key inserts a character into the document only
\* if it is a printable byte or a tab; every other key without a case of
\* its own (a control byte such as Ctrl-A or Ctrl-J) leaves the rows, the
\* cursor and the dirty counter as they were.
C26_OnlyPrintableInserted ==
    (t.pc = "pressed" /\ ~Printable(t.c) /\ t.c # TAB) =>
        /\ RawRows(ec) = t.rows
        /\ ec.cursor_x = t.before.cursor_x
        /\ ec.cursor_y = t.before.cursor_y
        /\ ec.dirty = t.before.dirty

(***************************************************************************)
(* Properties of editorPrompt (SpecPrompt)                                 *)
(***************************************************************************)

\* editorPrompt returns NULL, and then the key was Escape, or a string
\* that is not empty and is the buffer as it was when Enter was pressed.
PromptReturnsBuffer ==
    t.pc = "returned" =>
        IF t.result.null
        THEN t.c = ESC
        ELSE /\ t.c = CARRIAGE_RETURN
             /\ t.result.str # <<>>
             /\ t.result.str = t.buf

\* Enter and the erasing keys on an empty buffer keep the prompt open and
\* the buffer empty.
EmptyBufferStays ==
    (/\ t.pc = "prompt"
     /\ t.buf = <<>>
     /\ t'.c \in {CARRIAGE_RETURN, BACKSPACE, CTRL_KEY(104), DEL_KEY}) =>
        /\ t'.pc = "prompt"
        /\ t'.buf = <<>>

\* C27: for every key sequence editorPrompt returns either NULL, only
\* after Escape, or a string that is not empty and equals the buffer at
\* the moment Enter was pressed; Enter on an empty buffer does not end the
\* prompt, and Backspace / Delete on an empty buffer leave it empty.
C27_PromptResultNeverEmpty ==
    /\ []PromptReturnsBuffer
    /\ [][EmptyBufferStays]_vars

\* Enter was pressed on an empty buffer, then two bytes were typed and
\* Enter returned them.
C27_Witness ==
    /\ t.pc = "returned"
    /\ t.c = CARRIAGE_RETURN
    /\ ~t.result.null
    /\ t.result.str = <<LETTER_A, SPACE>>

\* The logical keys decoded from escape sequences that editorPrompt has
\* no branch for: the arrows, Page Up, Page Down, Home and End.
NonByteKeys == ARROW_LEFT..END_KEY

\* A key was handled in the prompt, which stays open.
PromptRound ==
    /\ t.pc = "prompt"
    /\ t'.pc = "prompt"

\* The buffer grows only by a printable byte, which is the key.
OnlyPrintableAppended ==
    (PromptRound /\ Len(t'.buf) > Len(t.buf)) =>
        /\ Printable(t'.c)
        /\ t'.buf = Append(t.buf, t'.c)

\* The arrows, Page Up, Page Down, Home and End leave the buffer alone.
NonByteKeysIgnored ==
    (PromptRound /\ t'.c \in NonByteKeys) => t'.buf = t.buf

\* C33: in editorPrompt only a key that is a single printable byte is
\* appended to the buffer; the arrows, Page Up, Page Down, Home and End
\* leave its content and its length unchanged.
C33_NonByteKeysKeptOut ==
    [][OnlyPrintableAppended /\ NonByteKeysIgnored]_vars

\* The same for the keys that are bytes of the C locale (0..127), for
\* which iscntrl is defined.
C33_BytesOnly ==
    [][(t'.c \in 0..127) => OnlyPrintableAppended]_vars

\* C28: with the cursor at row 0, column 0, or on the line behind the last
\* row (cursor_y == num_rows), editorDelChar() leaves the rows, cursor_x,
\* cursor_y and dirty (every field of the editor) as they were.
C28_DelCharNoOpAtEdges ==
    (/\ t.pc = "deleted"
     /\ \/ t.before.cursor_x = 0 /\ t.before.cursor_y = 0
        \/ t.before.cursor_y = t.before.num_rows) =>
        /\ RawRows(ec) = t.rows
        /\ ec = t.before

\* editorDelChar() ran at row 0, column 0 of a document of two rows.
C28_Witness ==
    /\ t.pc = "deleted"
    /\ t.before.cursor_x = 0
    /\ t.before.cursor_y = 0
    /\ t.before.num_rows = 2
    /\ ec.num_rows = 2
    /\ ec.dirty = t.before.dirty

\* C29: with cursor_x == 0 and 0 < cursor_y < num_rows, editorDelChar()
\* puts the one row raw[cursor_y - 1] ++ raw[cursor_y] in the place of
\* rows cursor_y - 1 and cursor_y, makes num_rows one less, leaves the
\* other rows as they were and in order, and puts the cursor on row
\* cursor_y - 1 at the former size of that row.
C29_JoinOnBackspace ==
    (/\ t.pc = "deleted"
     /\ t.before.cursor_x = 0
     /\ t.before.cursor_y > 0
     /\ t.before.cursor_y < t.before.num_rows) =>
        LET y == t.before.cursor_y
        IN /\ ec.num_rows = Len(t.rows) - 1
           /\ RawRows(ec) = SubSeq(t.rows, 1, y - 1)
                               \o <<t.rows[y] \o t.rows[y + 1]>>
                               \o SubSeq(t.rows, y + 2, Len(t.rows))
           /\ ec.cursor_y = y - 1
           /\ ec.cursor_x = Len(t.rows[y])

\* The second row of a document was joined to the first, neither being
\* empty.
C29_Witness ==
    /\ t.pc = "deleted"
    /\ t.rows = <<<<LETTER_A, TAB>>, <<TAB>>>>
    /\ t.before.cursor_x = 0
    /\ t.before.cursor_y = 1
    /\ RawRows(ec) = <<<<LETTER_A, TAB, TAB>>>>
    /\ ec.cursor_x = 2
    /\ ec.cursor_y = 0

\* C30: for a cursor on a row y at column k, editorInsertNewline() yields
\* a document of one more row in which row y is raw[0, k) and row y + 1 is
\* raw[k, size) (for k == 0 an empty row y and the unchanged row at
\* y + 1), the other rows are as they were and in order, and the cursor is
\* at row y + 1, column 0.
C30_SplitOnEnter ==
    (t.pc = "split" /\ t.before.cursor_y < t.before.num_rows) =>
        LET y == t.before.cursor_y
            k == t.before.cursor_x
            raw == t.rows[y + 1]
        IN /\ ec.num_rows = Len(t.rows) + 1
           /\ RawRows(ec) = SubSeq(t.rows, 1, y)
                               \o <<SubSeq(raw, 1, k), SubSeq(raw, k + 1, Len(raw))>>
                               \o SubSeq(t.rows, y + 2, Len(t.rows))
           /\ ec.cursor_y = y + 1
           /\ ec.cursor_x = 0

\* The first row of a document of two rows was split in its middle.
C30_Witness ==
    /\ t.pc = "split"
    /\ t.rows = <<<<LETTER_A, TAB>>, <<TAB>>>>
    /\ t.before.cursor_y = 0
    /\ t.before.cursor_x = 1
    /\ RawRows(ec) = <<<<LETTER_A>>, <<TAB>>, <<TAB>>>>
    /\ ec.cursor_y = 1
    /\ ec.cursor_x = 0

(***************************************************************************)
(* Properties of the search prompt in the editor loop (Spec)               *)
(***************************************************************************)

\* A round of the search prompt's loop: a key was read in the prompt, the
\* callback ran, the screen was refreshed (editorScroll included) and the
\* next key of the prompt is awaited.
SearchPromptRound ==
    /\ pc = "prompt_key"
    /\ prompt.kind = "search"
    /\ pc' = "prompt_key"

\* The round's scan found the query on row i, and left the cursor there.
FoundOnRow(i) ==
    /\ SearchPromptRound
    /\ SearchFinds(ec, prompt'.buf)
    /\ SearchLoop(ec, prompt'.buf, 0).cursor_y = i
    /\ SearchLoop(ec, prompt'.buf, 0).row_offset = ec.num_rows
    /\ ec'.cursor_y = i

\* C31: behind a key of the search prompt whose scan finds a match on row
\* i, the scroll recomputation of the next refresh leaves row_offset = i,
\* whatever row_offset was before the key.
C31_MatchScrolledToTop ==
    [][\A i \in 0..MaxRows : FoundOnRow(i) => ec'.row_offset = i]_vars

\* The same on a window with a text area of one line or more.
C31_MatchScrolledToTop_TextArea ==
    [][\A i \in 0..MaxRows :
          (FoundOnRow(i) /\ ec.screen_rows >= 1) => ec'.row_offset = i]_vars

\* Some key handler would index the row array outside 0..num_rows-1 in
\* the state e: editorInsertChar, editorInsertNewline, editorDelChar
\* (Backspace, and Delete behind its move to the right) or
\* editorMoveCursor.
HandlerOob(e) ==
    \/ InsertCharOob(e)
    \/ InsertNewlineOob(e)
    \/ DelCharOob(e)
    \/ DelCharOob(editorMoveCursor(e, ARROW_RIGHT, 0))
    \/ MoveCursorOob(e, ARROW_LEFT)

\* C34: in every reachable state, the empty buffer at start-up and the
\* cursor on the line behind the last row included, every read or write
\* of row[i] has 0 <= i < num_rows: the status bar of every frame reads a
\* row of the document, no key handler indexes outside the rows, and no
\* access ends the process.
C34_RowAccessesInBounds ==
    /\ pc # "fault"
    /\ (pc \in {"start", "key", "prompt_key"}) => ~StatusBarOob(ec)
    /\ (pc = "key") => ~HandlerOob(ec)

\* The status bar alone, with the cursor where the specification allows it
\* (C1): on a row or on the line behind the last row.
C34_StatusBarInBounds ==
    (pc \in {"start", "key", "prompt_key"} /\ ec.cursor_y >= 0 /\ ec.cursor_y <= ec.num_rows)
        => ~StatusBarOob(ec)

\* The key handlers alone, with the cursor where the specification allows
\* it (C1).
C34_HandlersInBounds ==
    (/\ pc = "key"
     /\ ec.cursor_y >= 0
     /\ ec.cursor_y <= ec.num_rows
     /\ ec.cursor_x >= 0
     /\ InBounds(ec, ec.cursor_y) => ec.cursor_x <= ec.row[ec.cursor_y + 1].size
     /\ ~InBounds(ec, ec.cursor_y) => ec.cursor_x = 0)
        => ~HandlerOob(ec)

(***************************************************************************)
(* Properties of the row operations (SpecRow)                              *)
(***************************************************************************)

\* C5: for every row and every cursor_x in [0, row size],
\* editorRowRenderXToCursorX(row, editorRowCursorXToRenderX(row, cursor_x))
\* is cursor_x.
C5_CoordinateRoundTrip ==
    t.pc = "cursor_x" => t.cursor_x = t.n

\* The round trip was made from a column behind a tab, inside the row.
C5_Witness ==
    /\ t.pc = "cursor_x"
    /\ t.chars = <<LETTER_A, TAB, TAB, LETTER_A>>
    /\ t.n = 3
    /\ t.render_x = 2 * TTE_TAB_STOP
    /\ t.cursor_x = 3

\* C6: for every row and every cursor_x in [0, row size],
\* editorRowCursorXToRenderX(row, cursor_x) is the length of the render
\* editorUpdateRow builds for the first cursor_x bytes of the row; for a
\* tab followed by a letter, column 1 maps to 8 and column 2 maps to 9.
C6_RenderXIsPrefixLength ==
    t.pc = "render_x" =>
        /\ t.render_x = NewRow(SubSeq(t.chars, 1, t.n)).render_size
        /\ t.render_x = Len(NewRow(SubSeq(t.chars, 1, t.n)).render)
        /\ (t.chars = <<TAB, LETTER_A>> /\ t.n = 1) => t.render_x = 8
        /\ (t.chars = <<TAB, LETTER_A>> /\ t.n = 2) => t.render_x = 9

\* Column 2 of a tab followed by a letter was mapped.
C6_Witness ==
    /\ t.pc = "render_x"
    /\ t.chars = <<TAB, LETTER_A>>
    /\ t.n = 2
    /\ t.render_x = 9

\* C7 as claimed: for every row, byte c and position at,
\* editorRowInsertChar(row, at, c) followed by editorRowDelChar(row, at)
\* leaves the row's raw content and size as they were.
C7_InsertDeleteInverse ==
    t.pc = "deleted" =>
        /\ ec.row[1].size = Len(t.chars)
        /\ SubSeq(ec.row[1].chars, 1, ec.row[1].size) = t.chars

\* C7 for the positions of the row: for every row, byte c and position at
\* in [0, row size], editorRowInsertChar(row, at, c) followed by
\* editorRowDelChar(row, at) leaves the row's raw content and size as they
\* were.
C7_InsertDeleteInverseInRow ==
    (t.pc = "deleted" /\ t.n >= 0 /\ t.n <= Len(t.chars)) =>
        /\ ec.row[1].size = Len(t.chars)
        /\ SubSeq(ec.row[1].chars, 1, ec.row[1].size) = t.chars

\* A tab was inserted in the middle of a row and deleted again.
C7_Witness ==
    /\ t.pc = "deleted"
    /\ t.chars = <<LETTER_A, LETTER_A>>
    /\ t.n = 1
    /\ t.c = TAB
    /\ ec.row[1].chars = <<LETTER_A, LETTER_A>>
    /\ ec.dirty = 3

(***************************************************************************)
(* Properties of split and join (SpecEdit)                                 *)
(***************************************************************************)

\* C8 as claimed: for every document and every cursor position the editor
\* allows, editorInsertNewline() followed by editorDelChar() restores the
\* sequence of rows (count and raw contents).
C8_SplitJoinInverse ==
    t.pc = "joined" =>
        /\ ec.num_rows = Len(t.rows)
        /\ RawRows(ec) = t.rows

\* C8 for a cursor on a row: for every document and every cursor position
\* with cursor_y < num_rows, editorInsertNewline() followed by
\* editorDelChar() restores the sequence of rows (count and raw contents).
C8_SplitJoinInverseOnRow ==
    (t.pc = "joined" /\ t.cursor_y < Len(t.rows)) =>
        /\ ec.num_rows = Len(t.rows)
        /\ RawRows(ec) = t.rows

\* The second row of a document was split in its middle and joined again.
C8_Witness ==
    /\ t.pc = "joined"
    /\ t.rows = <<<<TAB>>, <<LETTER_A, TAB>>>>
    /\ t.cursor_y = 1
    /\ t.cursor_x = 1
    /\ ec.cursor_y = 1
    /\ ec.cursor_x = 1
    /\ ec.num_rows = 2

(***************************************************************************)
(* Properties of save and load (SpecIO)                                    *)
(***************************************************************************)

====
